---- MODULE Spec2Model ----
(***************************************************************************)
(* A model of the resumable migration pipeline of wp-to-contentful:        *)
(*   scripts/03-migrate-assets.js  (src/unnamed/part_000)  migrateAssets   *)
(*   scripts/04-migrate-content.js                         migrateContent  *)
(* One behaviour is one run of one of the two scripts.  The identity maps  *)
(* exist twice, as in the code: in memory (assetMap, entryMap) and on disk *)
(* (asset-map.json, entry-map.json).  Every destination call may raise.    *)
(***************************************************************************)
EXTENDS Integers, Sequences, FiniteSets, TLC

\* ------------------------------------------------------------------ bounds
\* BATCH_SIZE is read from the environment (default 5); the model runs with a
\* small configured value.
BATCH_SIZE == 2
\* Source ids are 1..MaxId.
MaxId == 3
\* An export holds at most MaxEntities entities (media items for
\* migrate-assets, entities of all five families for migrate-content).
MaxEntities == 3
\* A hierarchical family (categories, pages) holds at most MaxHier entities.
MaxHier == 2
\* At most MaxFail calls raise in one run.
MaxFail == 1
\* waitForProcessing(environment, assetId, maxAttempts = 20): the script
\* always takes the default; the model runs with a small number of attempts.
maxAttempts == 2
\* The HTML given to the transformer nests elements at most MaxDepth deep,
\* and an element (a table, a row) has at most MaxKids children.
MaxDepth == 2
MaxKids == 2

MaxParams == 2
\* The posts and the pages of an export whose warnings are studied.
MaxBodies == 2
\* fetchAllPaginated asks for per_page: 100 items to a page; the model runs
\* with small pages, and an endpoint holds at most MaxItems items.
per_page == 2
MaxItems == 5

Ids == 1..MaxId

SeqsUpTo(S, n) == UNION {[1..k -> S] : k \in 0..n}

Min(a, b) == IF a < b THEN a ELSE b

\* ------------------------------------------------------------ identity maps
\* A map is a function from its keys to destination ids; a file is absent or
\* holds a map.
EmptyMap == [k \in {} |-> 0]

NoFile == [exists |-> FALSE, map |-> EmptyMap]

FileOf(m) == [exists |-> TRUE, map |-> m]

\* fs.readJson of an existing file, {} otherwise.
LoadMap(file) == IF file.exists THEN file.map ELSE EmptyMap

\* m[k] = v
Put(m, k, v) == [x \in DOMAIN m \cup {k} |-> IF x = k THEN v ELSE m[x]]

\* if (assetMap[wpId]) / if (entryMap[mapKey]): destination ids are non-empty
\* strings, so a key is truthy exactly when it is present.
Has(m, k) == k \in DOMAIN m

\* m1 is kept by m2: every mapping of m1 is in m2 with the same destination id.
Kept(m1, m2) == \A k \in DOMAIN m1 : k \in DOMAIN m2 /\ m2[k] = m1[k]

\* ------------------------------------------------------------- the export
Prefixes == <<"author", "cat", "tag", "post", "page">>

Families == <<"authors", "categories", "tags", "posts", "pages">>

ContentTypes == <<"author", "category", "tag", "blogPost", "page">>

StatNames == {"assets", "authors", "categories", "tags", "posts", "pages"}

\* `author_${user.id}`, `cat_${cat.id}`, `tag_${tag.id}`, `post_${post.id}`,
\* `page_${page.id}`
MapKey(f, id) == <<Prefixes[f], id>>

\* An item of wpData.media: an object with an id, or an invalid entry ("" or
\* null) as some hosts return.
MediaItems == {[id |-> d, valid |-> TRUE] : d \in Ids}

RawMediaItems == MediaItems \cup {[id |-> 0, valid |-> FALSE]}

\* Media ids are opaque keys (compared for equality only), so the media lists
\* are taken up to renaming: ids are numbered in order of first occurrence.
\* Ids may repeat.
FirstOccurrence(l) ==
    \A a \in 1..Len(l) :
        l[a].valid => l[a].id <= 1 + Cardinality({l[b].id : b \in {c \in 1..(a - 1) : l[c].valid}})

RawMediaLists == {l \in SeqsUpTo(RawMediaItems, MaxEntities) : FirstOccurrence(l)}

\* Entities of the five families.  parent = 0 is "no parent"; a parent may be
\* an id that the export does not hold.  A post refers to the author and the
\* media item of its own number and to every category and tag number, so that
\* which of its references resolve is decided by the maps.
Entity(f, d, p) ==
    [id |-> d, parent |-> p, author |-> IF f = 4 THEN d ELSE 0,
     featured_media |-> IF f \in {4, 5} THEN d ELSE 0,
     categories |-> IF f = 4 THEN Ids ELSE {},
     tags |-> IF f = 4 THEN Ids ELSE {}]

IsHier(f) == f \in {2, 5}

\* The lists a family of the export can hold when n entities are left of the
\* export's size.  The k entities of a hierarchical family have the ids 1..k
\* in export order, any parent of 0..MaxId but themselves: a parent may come
\* before or after its child, have a smaller or a larger id, or be an id the
\* export does not hold.  The other families list their ids in ascending
\* order, and an id may repeat.
HierLists(f, n) ==
    UNION {{[a \in 1..k |-> Entity(f, a, p[a])] :
              p \in {q \in [1..k -> 0..MaxId] : \A a \in 1..k : q[a] # a}} :
           k \in 0..Min(n, MaxHier)}

FlatLists(f, n) ==
    {[a \in 1..Len(l) |-> Entity(f, l[a], 0)] :
        l \in {m \in SeqsUpTo(Ids, n) :
                  \A a \in 1..(Len(m) - 1) : m[a] <= m[a + 1]}}

FamilyLists(f, n) == IF IsHier(f) THEN HierLists(f, n) ELSE FlatLists(f, n)

\* Destination ids (sys.id) are opaque and generated by the destination; the
\* model names them by what they were created for.  OldId: made by an earlier
\* run for source id d of family f (0 for media).  AssetId: asset.sys.id of
\* the j-th media item of this run.  EntryId, SectionId: entry.sys.id and
\* sectionEntry.sys.id of the k-th entry this run creates for source id d of
\* family f.
OldId(f, d) == <<"old", f, d, 0>>

AssetId(j) == <<"asset", 0, j, 0>>

EntryId(f, d, k) == <<"entry", f, d, k>>

SectionId(d, k) == <<"section", 5, d, k>>

\* The map files a run can start with: absent, or holding the mappings an
\* earlier run made: of any set of media ids; of the source id 1, or of every
\* source id, of every family.
OldAssetMap(S) == [k \in S |-> OldId(0, k)]

OldEntryMap(n) ==
    [k \in {MapKey(f, d) : f \in 1..5, d \in 1..n} |->
        OldId(CHOOSE f \in 1..5 : Prefixes[f] = k[1], k[2])]

AssetFiles == {NoFile} \cup {FileOf(OldAssetMap(S)) : S \in SUBSET Ids}

\* migrate-content only reads asset-map.json: absent, or left by a
\* migrate-assets run that migrated the first media item.
ReadAssetFiles == {NoFile, FileOf(OldAssetMap({1}))}

EntryFiles == {NoFile, FileOf(OldEntryMap(1)), FileOf(OldEntryMap(MaxId))}

\* --------------------------------------------------------------- the state
VARIABLES
    script,     \* "assets" or "content": the script this run executes
    wpExport,   \* data/wp-export.json (or wp-export-poc.json) exists
    pc,         \* where the script is
    fam,        \* migrate-content: the family being migrated (1..5)
    list,       \* media (filtered) / the family's list in processing order
    i,          \* assets: the batch offset i; content: index of the entity
    seen,       \* migrate-content: entities reached so far in the run
    task,       \* migrate-assets: what each media item's task is awaiting
    attempt,    \* migrate-assets: the loop counter i of a task's waitForProcessing
    assetFile,  \* data/asset-map.json
    entryFile,  \* data/entry-map.json
    assetMap,   \* the in-memory asset map
    entryMap,   \* the in-memory entry map
    stats,      \* total / migrated / skipped / failed per family
    dest,       \* the entities the destination holds that this run created
    called,     \* a destination call has been issued in this run
    file0,      \* the script's own map file as it was when the run started
    covered,    \* every entity read so far had a mapping in file0
    arg,        \* the argument of the call under study
    ret,        \* what the call returned, and the warnings it recorded
    local,      \* the local variables of the function under study
    log         \* what the script has printed, where a claim is about it

vars == <<script, wpExport, attempt, pc, fam, list, i, seen, task, assetFile, entryFile,
          assetMap, entryMap, stats, dest, called, file0, covered, arg, ret, local, log>>

ZeroStats == [total |-> 0, migrated |-> 0, skipped |-> 0, failed |-> 0]

\* No call of the transformer is under study in a run of the scripts.
NoCall == [done |-> FALSE]

\* No local variable is under study.
NoLocals == [none |-> TRUE]

\* Calls that have raised so far.
Fails ==
    stats["assets"].failed + stats["authors"].failed
    + stats["categories"].failed + stats["tags"].failed
    + stats["posts"].failed + stats["pages"].failed

Count(s, f) == [stats EXCEPT ![s][f] = @ + 1]

Init ==
    /\ script \in {"assets", "content"}
    /\ wpExport \in BOOLEAN
    /\ pc = "start"
    /\ fam = 0
    /\ list = <<>>
    /\ i = 0
    /\ seen = 0
    /\ task = <<>>
    /\ attempt = <<>>
    /\ assetFile \in IF script = "assets" THEN AssetFiles ELSE ReadAssetFiles
    /\ entryFile \in IF script = "content" THEN EntryFiles ELSE {NoFile}
    /\ assetMap = EmptyMap
    /\ entryMap = EmptyMap
    /\ stats = [s \in StatNames |-> ZeroStats]
    /\ dest = {}
    /\ called = FALSE
    /\ file0 = IF script = "assets" THEN assetFile ELSE entryFile
    /\ covered = TRUE
    /\ arg = NoCall
    /\ ret = NoCall
    /\ local = NoLocals
    /\ log = <<>>

\* ================================================= rich-text-transformer
\* A string is a sequence of tokens: white space (" ", "\n"), the characters
\* the transformer's patterns look for ("?", "&", "p", "=", "/", digits,
\* "wp-image-") and opaque tokens that hold none of them.
WhiteSpace == {" ", "\n"}

Digits == <<"0", "1", "2", "3", "4", "5", "6", "7", "8", "9">>

IsDigit(c) == \E d \in 1..10 : Digits[d] = c

DigitValue(c) == (CHOOSE d \in 1..10 : Digits[d] = c) - 1

\* String.prototype.trim
RECURSIVE TrimStart(_)
TrimStart(s) ==
    IF s # <<>> /\ Head(s) \in WhiteSpace THEN TrimStart(Tail(s)) ELSE s

RECURSIVE TrimEnd(_)
TrimEnd(s) ==
    IF s # <<>> /\ s[Len(s)] \in WhiteSpace
    THEN TrimEnd(SubSeq(s, 1, Len(s) - 1)) ELSE s

Trim(s) == TrimEnd(TrimStart(s))

\* How many digits s starts with: the (\d+) of a pattern.
RECURSIVE LeadingDigits(_)
LeadingDigits(s) ==
    IF s # <<>> /\ IsDigit(Head(s)) THEN 1 + LeadingDigits(Tail(s)) ELSE 0

\* The value of a sequence of digits.
RECURSIVE Decimal(_)
Decimal(s) ==
    IF s = <<>> THEN 0
    ELSE 10 * Decimal(SubSeq(s, 1, Len(s) - 1)) + DigitValue(s[Len(s)])

\* parseInt(s): the number the string starts with, after white space.  NaN is
\* modelled as 0: the transformer only tests the result for truthiness and
\* uses it as a key when it is truthy.
ParseInt(s) ==
    LET t == TrimStart(s) IN Decimal(SubSeq(t, 1, LeadingDigits(t)))

\* s.match(prefix(\d+)suffix): the digits of the first match, <<>> if there
\* is none.  prefix is a set of token sequences, suffix a token sequence.
Starts(s, q) == Len(q) <= Len(s) /\ SubSeq(s, 1, Len(q)) = q

RECURSIVE MatchDigits(_, _, _)
MatchDigits(s, prefixes, suffix) ==
    IF s = <<>> THEN <<>>
    ELSE LET hits == {q \in prefixes :
                        /\ Starts(s, q)
                        /\ LET r == SubSeq(s, Len(q) + 1, Len(s))
                           IN LeadingDigits(r) > 0
                              /\ Starts(SubSeq(r, LeadingDigits(r) + 1, Len(r)), suffix)}
         IN IF hits # {}
            THEN LET q == CHOOSE x \in hits : TRUE
                     r == SubSeq(s, Len(q) + 1, Len(s))
                 IN SubSeq(r, 1, LeadingDigits(r))
            ELSE MatchDigits(Tail(s), prefixes, suffix)

\* ------------------------------------------------------------ the parsed HTML
\* A node of the tree node-html-parser returns: nodeType 1 element, 3 text,
\* 8 comment.  An attribute that is absent reads as the empty string.
NoAttrs == [href |-> <<>>, src |-> <<>>, class |-> <<>>, dataId |-> <<>>, alt |-> <<>>]

TextOf(s) == [nodeType |-> 3, tagName |-> "", attrs |-> NoAttrs, text |-> s, childNodes |-> <<>>]

Comment == [nodeType |-> 8, tagName |-> "", attrs |-> NoAttrs, text |-> <<>>, childNodes |-> <<>>]

ElementWith(tag, attrs, kids) ==
    [nodeType |-> 1, tagName |-> tag, attrs |-> attrs, text |-> <<>>, childNodes |-> kids]

Element(tag, kids) == ElementWith(tag, NoAttrs, kids)

Concat(ss) == IF Len(ss) = 0 THEN <<>> ELSE
    LET F[k \in 0..Len(ss)] == IF k = 0 THEN <<>> ELSE F[k - 1] \o ss[k] IN F[Len(ss)]

\* node.textContent: the text of the node's descendants, in document order.
RECURSIVE TextContent(_)
TextContent(node) ==
    IF node.nodeType = 3 THEN node.text
    ELSE Concat([k \in 1..Len(node.childNodes) |-> TextContent(node.childNodes[k])])

\* node.querySelectorAll(tags): the descendant elements with one of the tags,
\* in document order.
RECURSIVE QuerySelectorAll(_, _)
QuerySelectorAll(node, tags) ==
    Concat([k \in 1..Len(node.childNodes) |->
              LET c == node.childNodes[k] IN
              (IF c.nodeType = 1 /\ c.tagName \in tags THEN <<c>> ELSE <<>>)
              \o QuerySelectorAll(c, tags)])

\* ------------------------------------------------------- the rich-text tree
\* A node of the document: nodeType, data, content, and for a text-run value
\* and marks.  data holds a uri (hyperlink) or the target of a link.
NoData == [kind |-> "none", ref |-> <<>>]

UriData(href) == [kind |-> "uri", ref |-> href]

TargetData(linkType, id) == [kind |-> linkType, ref |-> id]

RichNode(type, data, content) ==
    [nodeType |-> type, data |-> data, content |-> content, value |-> <<>>, marks |-> <<>>]

TextRun(value, marks) ==
    [nodeType |-> "text", data |-> NoData, content |-> <<>>, value |-> value, marks |-> marks]

createTextNode(text) == TextRun(text, <<>>)

emptyParagraph == RichNode("paragraph", NoData, <<createTextNode(<<>>)>>)

emptyDocument == RichNode("document", NoData, <<emptyParagraph>>)

MarkTags == {"strong", "b", "em", "i", "u", "code", "mark", "sub", "sup"}

getMarkType(tag) ==
    CASE tag \in {"strong", "b", "mark"} -> "bold"
      [] tag \in {"em", "i"} -> "italic"
      [] tag = "u" -> "underline"
      [] tag = "code" -> "code"
      [] tag = "sub" -> "subscript"
      [] tag = "sup" -> "superscript"

\* The pattern without the "&": p has to be the first parameter.
extractWpPostIdFromUrl_First(url) ==
    ParseInt(MatchDigits(url, {<<"?", "p", "=">>}, <<>>))

\* url.match(/[?&]p=(\d+)/), parseInt of the digits; 0 stands for null.
extractWpPostIdFromUrl(url) ==
    ParseInt(MatchDigits(url, {<<"?", "p", "=">>, <<"&", "p", "=">>}, <<>>))

\* The formatting elements processInlineContent wraps with their mark.
InlineMarkTags == {"strong", "b", "em", "i", "u", "code", "mark"}

RECURSIVE processInlineContent(_, _)
RECURSIVE createHyperlink(_)
RECURSIVE wrapWithMark(_, _)

\* InlineOf without the skip of nested lists.
InlineOf_KeepLists(child, excludeNestedLists) ==
    IF child.nodeType = 3
    THEN (IF child.text # <<>> THEN <<createTextNode(child.text)>> ELSE <<>>)
    ELSE IF child.nodeType = 1
    THEN CASE child.tagName \in InlineMarkTags -> wrapWithMark(child, getMarkType(child.tagName))
           [] child.tagName = "a" -> <<createHyperlink(child)>>
           [] child.tagName = "br" -> <<createTextNode(<<"\n">>)>>
           [] child.tagName = "img" -> <<>>
           [] OTHER -> processInlineContent(child, excludeNestedLists)
    ELSE <<>>

\* What one child of the node adds to the inline results.
InlineOf(child, excludeNestedLists) ==
    IF excludeNestedLists /\ child.nodeType = 1 /\ child.tagName \in {"ul", "ol"} THEN <<>>
    ELSE IF child.nodeType = 3
    THEN (IF child.text # <<>> THEN <<createTextNode(child.text)>> ELSE <<>>)
    ELSE IF child.nodeType = 1
    THEN CASE child.tagName \in InlineMarkTags -> wrapWithMark(child, getMarkType(child.tagName))
           [] child.tagName = "a" -> <<createHyperlink(child)>>
           [] child.tagName = "br" -> <<createTextNode(<<"\n">>)>>
           [] child.tagName = "img" -> <<>>
           [] OTHER -> processInlineContent(child, excludeNestedLists)
    ELSE <<>>

processInlineContent(node, excludeNestedLists) ==
    LET results == Concat([k \in 1..Len(node.childNodes) |->
                             InlineOf(node.childNodes[k], excludeNestedLists)])
    IN IF Len(results) = 0 THEN <<createTextNode(<<>>)>> ELSE results

wrapWithMark(node, markType) ==
    LET content == processInlineContent(node, FALSE)
    IN [k \in 1..Len(content) |->
          IF content[k].nodeType = "text"
          THEN [content[k] EXCEPT !.marks = Append(@, markType)]
          ELSE content[k]]

\* createHyperlink on the entry map as it was loaded when the run started.
createHyperlink_Snapshot(node) ==
    LET href == node.attrs.href
        inline == processInlineContent(node, FALSE)
        content == IF Len(inline) = 0
                   THEN <<createTextNode(IF href # <<>> THEN href ELSE <<"link">>)>>
                   ELSE inline
        wpPostId == extractWpPostIdFromUrl(href)
    IN IF wpPostId # 0 /\ Has(LoadMap(file0), MapKey(4, wpPostId))
       THEN RichNode("entry-hyperlink",
                     TargetData("Entry", LoadMap(file0)[MapKey(4, wpPostId)]), content)
       ELSE RichNode("hyperlink", UriData(href), content)

createHyperlink(node) ==
    LET href == node.attrs.href
        inline == processInlineContent(node, FALSE)
        content == IF Len(inline) = 0
                   THEN <<createTextNode(IF href # <<>> THEN href ELSE <<"link">>)>>
                   ELSE inline
        wpPostId == extractWpPostIdFromUrl(href)
    IN IF wpPostId # 0 /\ Has(entryMap, MapKey(4, wpPostId))
       THEN RichNode("entry-hyperlink", TargetData("Entry", entryMap[MapKey(4, wpPostId)]), content)
       ELSE RichNode("hyperlink", UriData(href), content)

createParagraph(node) ==
    LET content == processInlineContent(node, FALSE)
    IN IF Len(content) = 0
          \/ (Len(content) = 1 /\ content[1].nodeType = "text" /\ content[1].value = <<>>)
       THEN <<>>
       ELSE <<RichNode("paragraph", NoData, content)>>

\* `heading-${level}`
HeadingType(level) ==
    CASE level = 2 -> "heading-2" [] level = 3 -> "heading-3" [] level = 4 -> "heading-4"

createHeading(node, level) ==
    LET content == processInlineContent(node, FALSE)
    IN IF Len(content) = 0 THEN <<>>
       ELSE <<RichNode(HeadingType(level), NoData, content)>>

\* The media id with the class looked at before data-id.
ExtractMediaId_ClassFirst(imgNode) ==
    LET byDataId == IF imgNode.attrs.dataId # <<>> THEN ParseInt(imgNode.attrs.dataId) ELSE 0
        byClass == ParseInt(MatchDigits(imgNode.attrs.class, {<<"wp-image-">>}, <<>>))
        byUrl == ParseInt(MatchDigits(imgNode.attrs.src, {<<"/">>}, <<"/">>))
    IN IF byClass # 0 THEN byClass ELSE IF byDataId # 0 THEN byDataId ELSE byUrl

\* imgNode -> the source media id: data-id, then class wp-image-<id>, then a
\* numeric segment of the src path; 0 stands for null.
ExtractMediaId(imgNode) ==
    LET byDataId == IF imgNode.attrs.dataId # <<>> THEN ParseInt(imgNode.attrs.dataId) ELSE 0
        byClass == ParseInt(MatchDigits(imgNode.attrs.class, {<<"wp-image-">>}, <<>>))
        byUrl == ParseInt(MatchDigits(imgNode.attrs.src, {<<"/">>}, <<"/">>))
    IN IF byDataId # 0 THEN byDataId ELSE IF byClass # 0 THEN byClass ELSE byUrl

\* src.substring(0, 100) of the warning is the whole src in the model.
AssetWarning(imgNode) == [kind |-> "asset", text |-> imgNode.attrs.src]

\* The image resolves: const contentfulAssetId = wpId ? this.assetMap[wpId] : null
AssetResolves(imgNode) ==
    ExtractMediaId(imgNode) # 0 /\ Has(assetMap, ExtractMediaId(imgNode))

createEmbeddedAsset(imgNode) ==
    IF ~AssetResolves(imgNode)
    THEN LET alt == imgNode.attrs.alt IN
         RichNode("paragraph", NoData,
                  <<TextRun(<<"[Image: ">> \o (IF alt # <<>> THEN alt ELSE imgNode.attrs.src)
                               \o <<"]">>,
                            <<"italic">>)>>)
    ELSE RichNode("embedded-asset-block",
                  TargetData("Asset", assetMap[ExtractMediaId(imgNode)]), <<>>)

\* Array.prototype.join
RECURSIVE Join(_, _)
Join(ss, sep) ==
    IF Len(ss) = 0 THEN <<>>
    ELSE IF Len(ss) = 1 THEN ss[1]
    ELSE ss[1] \o sep \o Join(Tail(ss), sep)

\* tableToText without the trim of the cells' text.
tableToText_Untrimmed(tableNode) ==
    LET rows == QuerySelectorAll(tableNode, {"tr"})
        textRows == [r \in 1..Len(rows) |->
                       LET cells == QuerySelectorAll(rows[r], {"td", "th"})
                       IN Join([c \in 1..Len(cells) |-> TextContent(cells[c])], <<" | ">>)]
    IN RichNode("paragraph", NoData, <<TextRun(Join(textRows, <<"\n">>), <<>>)>>)

tableToText(tableNode) ==
    LET rows == QuerySelectorAll(tableNode, {"tr"})
        textRows == [r \in 1..Len(rows) |->
                       LET cells == QuerySelectorAll(rows[r], {"td", "th"})
                       IN Join([c \in 1..Len(cells) |-> Trim(TextContent(cells[c]))],
                               <<" | ">>)]
    IN RichNode("paragraph", NoData, <<TextRun(Join(textRows, <<"\n">>), <<>>)>>)

\* figure: the first img and the first figcaption among the descendants.
processFigure(node) ==
    LET imgs == QuerySelectorAll(node, {"img"})
        caps == QuerySelectorAll(node, {"figcaption"})
    IN (IF Len(imgs) > 0 THEN <<createEmbeddedAsset(imgs[1])>> ELSE <<>>)
       \o (IF Len(caps) > 0 THEN createParagraph(caps[1]) ELSE <<>>)

\* child.querySelectorAll(':scope > ul, :scope > ol')
NestedLists(li) ==
    SelectSeq(li.childNodes, LAMBDA c : c.nodeType = 1 /\ c.tagName \in {"ul", "ol"})

ListType(tag) == IF tag = "ul" THEN "unordered-list" ELSE "ordered-list"

RECURSIVE createList(_, _)
\* The list item made of one li child, if it has content.
ListItemOf(child) ==
    LET nestedLists == NestedLists(child)
        inlineContent == processInlineContent(child, Len(nestedLists) > 0)
        listItemContent ==
            (IF Len(inlineContent) > 0
             THEN <<RichNode("paragraph", NoData, inlineContent)>> ELSE <<>>)
            \o Concat([k \in 1..Len(nestedLists) |->
                         createList(nestedLists[k], ListType(nestedLists[k].tagName))])
    IN IF Len(listItemContent) > 0
       THEN <<RichNode("list-item", NoData, listItemContent)>> ELSE <<>>

createList(node, listType) ==
    LET items == Concat([k \in 1..Len(node.childNodes) |->
                           IF node.childNodes[k].nodeType = 1 /\ node.childNodes[k].tagName = "li"
                           THEN ListItemOf(node.childNodes[k]) ELSE <<>>])
    IN IF Len(items) = 0 THEN <<>> ELSE <<RichNode(listType, NoData, items)>>

RECURSIVE processNodes(_)
RECURSIVE processNode(_)

createBlockquote(node) ==
    LET blocks == processNodes(node.childNodes)
        content == IF Len(blocks) > 0 THEN blocks
                   ELSE <<RichNode("paragraph", NoData, processInlineContent(node, FALSE))>>
    IN <<RichNode("blockquote", NoData,
                  SelectSeq(content, LAMBDA b : b.nodeType = "paragraph"))>>

\* processNode returns null, a node or an array of nodes; the model returns
\* the sequence processNodes adds to its results for it.
processNode(node) ==
    IF node.nodeType = 3
    THEN (IF Trim(node.text) = <<>> THEN <<>> ELSE <<createTextNode(node.text)>>)
    ELSE IF node.nodeType = 8 \/ node.tagName = "" THEN <<>>
    ELSE LET tag == node.tagName IN
         CASE tag \in {"p", "pre"} -> createParagraph(node)
           [] tag \in {"h1", "h2"} -> createHeading(node, 2)
           [] tag = "h3" -> createHeading(node, 3)
           [] tag \in {"h4", "h5", "h6"} -> createHeading(node, 4)
           [] tag \in {"ul", "ol"} -> createList(node, ListType(tag))
           [] tag = "blockquote" -> createBlockquote(node)
           [] tag = "hr" -> <<RichNode("hr", NoData, <<>>)>>
           [] tag = "table" -> <<tableToText(node)>>
           [] tag = "img" -> <<createEmbeddedAsset(node)>>
           [] tag = "figure" -> processFigure(node)
           [] tag \in {"video", "audio", "iframe"} -> <<>>
           [] tag = "a" -> <<createHyperlink(node)>>
           [] tag = "br" -> <<createTextNode(<<"\n">>)>>
           [] tag \in MarkTags -> wrapWithMark(node, getMarkType(tag))
           [] OTHER -> processNodes(node.childNodes)

processNodes(nodes) ==
    Concat([k \in 1..Len(nodes) |-> processNode(nodes[k])])

\* this.warnings after processNodes(nodes): the warnings pushed by the
\* block-level cases (table, img and figure, video, audio, iframe), in order.
RECURSIVE Warnings(_)
WarningsOf(node) ==
    IF node.nodeType # 1 THEN <<>>
    ELSE LET tag == node.tagName IN
         CASE tag = "table" -> <<[kind |-> "table", text |-> <<>>]>>
           [] tag = "img" ->
                IF AssetResolves(node) THEN <<>> ELSE <<AssetWarning(node)>>
           [] tag = "figure" ->
                LET imgs == QuerySelectorAll(node, {"img"}) IN
                IF Len(imgs) > 0 /\ ~AssetResolves(imgs[1])
                THEN <<AssetWarning(imgs[1])>> ELSE <<>>
           [] tag \in {"video", "audio", "iframe"} -> <<[kind |-> tag, text |-> <<>>]>>
           [] tag \in {"p", "pre", "h1", "h2", "h3", "h4", "h5", "h6", "ul", "ol",
                       "hr", "a", "br"} \cup MarkTags -> <<>>
           [] OTHER -> Warnings(node.childNodes)

Warnings(nodes) == Concat([k \in 1..Len(nodes) |-> WarningsOf(nodes[k])])

\* transform without the empty paragraph for an empty result.
transform_NoFallback(wpHtml) ==
    IF wpHtml.type # "string" \/ wpHtml.empty
    THEN [done |-> TRUE, doc |-> emptyDocument, warnings |-> <<>>]
    ELSE [done |-> TRUE,
          doc |-> RichNode("document", NoData, processNodes(wpHtml.childNodes)),
          warnings |-> Warnings(wpHtml.childNodes)]

\* transform(wpHtml): arg is what the caller passes, as its type and, for a
\* non-empty string, the tree parse() makes of it after pre-processing.
transform(wpHtml) ==
    IF wpHtml.type # "string" \/ wpHtml.empty
    THEN [done |-> TRUE, doc |-> emptyDocument, warnings |-> <<>>]
    ELSE LET content == processNodes(wpHtml.childNodes)
             finalContent == IF Len(content) > 0 THEN content ELSE <<emptyParagraph>>
         IN [done |-> TRUE,
             doc |-> RichNode("document", NoData, finalContent),
             warnings |-> Warnings(wpHtml.childNodes)]


\* ------------------------------------------------- the bodies of the export
\* The permalink of post n.
PostUrl(n) == <<"h", "/", "?", "p", "=", Digits[n + 1]>>

\* content.rendered of a post: one paragraph with an anchor to the post of
\* every source id, so that which of them resolve is decided by the entry map
\* at the time of the call.
rendered ==
    [type |-> "string", empty |-> FALSE,
     childNodes |-> <<Element("p", [n \in 1..MaxId |->
                        ElementWith("a", [NoAttrs EXCEPT !.href = PostUrl(n)],
                                    <<TextOf(<<"x">>)>>)])>>]

\* x.content?.rendered || '' of an entity of family f: every post has the
\* body above, every page one paragraph of text.
Body(f, e) ==
    IF f = 4 THEN rendered
    ELSE [type |-> "string", empty |-> FALSE,
          childNodes |-> <<Element("p", <<TextOf(<<"x">>)>>)>>]

\* The content field of an entity that has no rich text.
NoContent == RichNode("none", NoData, <<>>)

\* The script's local richTextContent: the document of the last transform.
richTextContent == ret.doc

\* ======================================================== migrate-assets
\* rawMedia.filter(item => typeof item === 'object' && item !== null)
RECURSIVE FilterMedia(_)
FilterMedia(raw) ==
    IF raw = <<>> THEN <<>>
    ELSE IF Head(raw).valid THEN <<Head(raw)>> \o FilterMedia(Tail(raw))
    ELSE FilterMedia(Tail(raw))

\* The script up to its batch loop: the export must exist, media is filtered,
\* an export without media writes an empty asset map and returns, otherwise
\* the asset map is loaded.
AssetsStart ==
    /\ script = "assets" /\ pc = "start"
    /\ \E raw \in (IF wpExport THEN RawMediaLists ELSE {<<>>}) :
         LET media == FilterMedia(raw) IN
         IF ~wpExport \/ (Len(raw) > 0 /\ Len(media) = 0)
         THEN /\ pc' = "error"
              /\ UNCHANGED <<list, task, attempt, assetFile, assetMap, stats, covered>>
         ELSE IF Len(media) = 0
         THEN /\ pc' = "done"
              /\ assetFile' = FileOf(EmptyMap)
              /\ UNCHANGED <<list, task, attempt, assetMap, stats, covered>>
         ELSE /\ pc' = "batch"
              /\ list' = media
              /\ task' = [j \in 1..Len(media) |-> "pending"]
              /\ attempt' = [j \in 1..Len(media) |-> 0]
              /\ assetMap' = LoadMap(assetFile)
              /\ stats' = [stats EXCEPT !["assets"].total = Len(media)]
              /\ covered' = \A j \in 1..Len(media) : Has(file0.map, media[j].id)
              /\ UNCHANGED assetFile
    /\ UNCHANGED <<local, log, arg, ret, script, wpExport, fam, i, seen, entryFile, entryMap, dest, called, file0>>

\* Mutant of Batch: the loop takes all the remaining media at once.
Batch_Whole(off, n) == (off + 1)..n

\* media.slice(i, i + BATCH_SIZE), as indices of media
Batch(off, n) == (off + 1)..Min(off + BATCH_SIZE, n)

\* Mutant of TaskStart: the task does not look the item up in the map.
TaskStart_NoSkip(item) == "download"

\* What a task does before its first await: return if the item is mapped,
\* otherwise start the download.
TaskStart(item) == IF Has(assetMap, item.id) THEN "skipped" ELSE "download"

\* batch.map(async (item) => ...): every task of the batch runs up to its
\* first await before any of them continues.
StartBatch ==
    /\ script = "assets" /\ pc = "batch"
    /\ LET B == Batch(i, Len(list)) IN
       /\ task' = [j \in 1..Len(list) |->
                     IF j \in B THEN TaskStart(list[j]) ELSE task[j]]
       /\ stats' = [stats EXCEPT !["assets"].skipped =
                     @ + Cardinality({j \in B : TaskStart(list[j]) = "skipped"})]
    /\ pc' = "await"
    /\ UNCHANGED <<local, log, arg, ret, script, wpExport, attempt, fam, list, i, seen, assetFile, entryFile, assetMap,
                   entryMap, dest, called, file0, covered>>

\* The awaits of one task, in order: axios.get, createUpload, createAsset,
\* processForAllLocales, waitForProcessing, publish.
AfterStage(s) ==
    CASE s = "download" -> "upload"
      [] s = "upload" -> "create"
      [] s = "create" -> "process"
      [] s = "process" -> "wait"
      [] s = "wait" -> "publish"
      [] s = "publish" -> "done"

InFlight == {"download", "upload", "create", "process", "wait", "publish"}

AssetOf(j, st) == [id |-> AssetId(j), type |-> "asset", wpId |-> list[j].id,
                   state |-> st, src |-> list[j], links |-> {}, content |-> NoContent]

\* The destination after the call task j awaits has returned.
DestAfter(j, s) ==
    CASE s = "create" -> dest \cup {AssetOf(j, "draft")}
      [] s = "wait" -> (dest \ {AssetOf(j, "draft")}) \cup {AssetOf(j, "processed")}
      [] s = "publish" -> (dest \ {AssetOf(j, "processed")}) \cup {AssetOf(j, "published")}
      [] OTHER -> dest

\* Mutant of CommitAsset: the mapping is also set as soon as the asset is
\* created.
CommitAsset_Early(j, s) ==
    IF s \in {"create", "publish"} THEN Put(assetMap, list[j].id, AssetId(j))
    ELSE assetMap

\* assetMap[wpId] = asset.sys.id, after processedAsset.publish() has returned.
CommitAsset(j, s) ==
    IF s = "publish" THEN Put(assetMap, list[j].id, AssetId(j)) ELSE assetMap

\* The call task j awaits returns and the task runs to its next await.
TaskStep(j) ==
    /\ script = "assets" /\ pc = "await"
    /\ task[j] \in InFlight \ {"wait"}
    /\ task' = [task EXCEPT ![j] = AfterStage(task[j])]
    /\ dest' = DestAfter(j, task[j])
    /\ assetMap' = CommitAsset(j, task[j])
    /\ stats' = IF task[j] = "publish" THEN Count("assets", "migrated") ELSE stats
    /\ called' = (called \/ task[j] # "download")
    /\ UNCHANGED <<local, log, arg, ret, script, wpExport, attempt, pc, fam, list, i, seen, assetFile, entryFile,
                   entryMap, file0, covered>>

\* Mutant of Exhausted: the loop allows one attempt more.
Exhausted_OneMore(n) == n > maxAttempts

\* for (let i = 0; i < maxAttempts; i++): the loop ends when i reaches
\* maxAttempts.
Exhausted(n) == ~(n < maxAttempts)

\* waitForProcessing: environment.getAsset(assetId) returns.  If the file's
\* url is populated the asset is returned to the task; otherwise the loop
\* goes on after a pause, or, with its attempts exhausted, throws the
\* processing timeout, which the task's catch counts as a failure.
Poll(j) ==
    /\ script = "assets" /\ pc = "await"
    /\ task[j] = "wait"
    /\ \E url \in BOOLEAN :
         IF url
         THEN /\ task' = [task EXCEPT ![j] = AfterStage("wait")]
              /\ attempt' = [attempt EXCEPT ![j] = 0]
              /\ dest' = DestAfter(j, "wait")
              /\ UNCHANGED stats
         ELSE IF ~Exhausted(attempt[j] + 1)
         THEN /\ attempt' = [attempt EXCEPT ![j] = @ + 1]
              /\ UNCHANGED <<task, dest, stats>>
         ELSE /\ Fails < MaxFail
              /\ task' = [task EXCEPT ![j] = "failed"]
              /\ attempt' = [attempt EXCEPT ![j] = 0]
              /\ stats' = Count("assets", "failed")
              /\ UNCHANGED dest
    /\ UNCHANGED <<local, log, arg, ret, script, wpExport, pc, fam, list, i, seen, assetFile, entryFile,
                   assetMap, entryMap, called, file0, covered>>

\* Mutant of TaskRaise: after a raise the task starts over.
TaskRaise_Retry(j) ==
    /\ script = "assets" /\ pc = "await"
    /\ task[j] \in InFlight
    /\ Fails < MaxFail
    /\ task' = [task EXCEPT ![j] = "download"]
    /\ stats' = Count("assets", "failed")
    /\ attempt' = [attempt EXCEPT ![j] = 0]
    /\ called' = (called \/ task[j] # "download")
    /\ UNCHANGED <<local, log, arg, ret, script, wpExport, pc, fam, list, i, seen, assetFile, entryFile,
                   assetMap, entryMap, dest, file0, covered>>

\* The call task j awaits raises: catch (error) { stats.failed++ }.
TaskRaise(j) ==
    /\ script = "assets" /\ pc = "await"
    /\ task[j] \in InFlight
    /\ Fails < MaxFail
    /\ task' = [task EXCEPT ![j] = "failed"]
    /\ stats' = Count("assets", "failed")
    /\ attempt' = [attempt EXCEPT ![j] = 0]
    /\ called' = (called \/ task[j] # "download")
    /\ UNCHANGED <<local, log, arg, ret, script, wpExport, pc, fam, list, i, seen, assetFile, entryFile,
                   assetMap, entryMap, dest, file0, covered>>

\* Mutant of AllSettled: the script goes on when the first task settles.
AllSettled_Any == \E j \in Batch(i, Len(list)) : task[j] \notin InFlight

\* await Promise.all(promises)
AllSettled == \A j \in Batch(i, Len(list)) : task[j] \notin InFlight

\* Mutant of FinishBatch: the map is written only after the last batch.
FinishBatch_SaveAtEnd ==
    /\ script = "assets" /\ pc = "await"
    /\ AllSettled
    /\ assetFile' = IF i + BATCH_SIZE < Len(list) THEN assetFile ELSE FileOf(assetMap)
    /\ i' = i + BATCH_SIZE
    /\ pc' = IF i + BATCH_SIZE < Len(list) THEN "batch" ELSE "done"
    /\ UNCHANGED <<local, log, arg, ret, script, wpExport, attempt, fam, list, seen, task, entryFile, assetMap, entryMap,
                   stats, dest, called, file0, covered>>

\* After Promise.all: fs.writeJson(assetMapPath, assetMap), then the next
\* batch or the end of the run.
FinishBatch ==
    /\ script = "assets" /\ pc = "await"
    /\ AllSettled
    /\ assetFile' = FileOf(assetMap)
    /\ i' = i + BATCH_SIZE
    /\ pc' = IF i + BATCH_SIZE < Len(list) THEN "batch" ELSE "done"
    /\ UNCHANGED <<local, log, arg, ret, script, wpExport, attempt, fam, list, seen, task, entryFile, assetMap, entryMap,
                   stats, dest, called, file0, covered>>

NextAssets ==
    \/ AssetsStart
    \/ StartBatch
    \/ \E j \in 1..Len(list) : TaskStep(j)
    \/ \E j \in 1..Len(list) : Poll(j)
    \/ \E j \in 1..Len(list) : TaskRaise(j)
    \/ FinishBatch

\* ======================================================= migrate-content
\* [...list].sort((a, b) => a.parent - b.parent): Array.prototype.sort is
\* stable, so entities of equal parent keep their order.
RECURSIVE InsertByParent(_, _)
InsertByParent(s, x) ==
    IF s = <<>> THEN <<x>>
    ELSE IF s[Len(s)].parent <= x.parent THEN Append(s, x)
    ELSE Append(InsertByParent(SubSeq(s, 1, Len(s) - 1), x), s[Len(s)])

RECURSIVE SortByParent(_)
SortByParent(l) ==
    IF l = <<>> THEN <<>>
    ELSE InsertByParent(SortByParent(SubSeq(l, 1, Len(l) - 1)), l[Len(l)])

\* Mutant of ProcessingOrder: every family is processed in export order.
ProcessingOrder_Export(f, l) == l

\* The order a family is processed in: categories and pages sorted by
\* parent, authors, tags and posts in export order.
ProcessingOrder(f, l) == IF IsHier(f) THEN SortByParent(l) ELSE l

\* createLink(id, linkType), with the field it is stored in and the source id
\* it stands for.
Link(field, linkType, ref, id) ==
    [field |-> field, linkType |-> linkType, ref |-> ref, id |-> id]

\* if (x.parent && entryMap[`<prefix>_${x.parent}`]) fields.parent = ...
ParentLinks(f, e) ==
    IF e.parent # 0 /\ Has(entryMap, MapKey(f, e.parent))
    THEN {Link("parent", "Entry", e.parent, entryMap[MapKey(f, e.parent)])}
    ELSE {}

\* post.categories.map(catId => entryMap[`cat_${catId}`]).filter(Boolean)
CategoryLinks(e) ==
    {Link("categories", "Entry", c, entryMap[MapKey(2, c)]) :
        c \in {x \in e.categories : Has(entryMap, MapKey(2, x))}}

\* post.tags.map(tagId => entryMap[`tag_${tagId}`]).filter(Boolean)
TagLinks(e) ==
    {Link("tags", "Entry", t, entryMap[MapKey(3, t)]) :
        t \in {x \in e.tags : Has(entryMap, MapKey(3, x))}}

\* Mutant of AuthorLinks: the author link is never written.
AuthorLinks_Never(e) == {}

\* const authorId = entryMap[`author_${post.author}`]; if (authorId) ...
AuthorLinks(e) ==
    IF Has(entryMap, MapKey(1, e.author))
    THEN {Link("author", "Entry", e.author, entryMap[MapKey(1, e.author)])}
    ELSE {}

\* x.featured_media ? assetMap[x.featured_media] : null; if (featuredImageId) ...
FeaturedImageLinks(e) ==
    IF e.featured_media # 0 /\ Has(assetMap, e.featured_media)
    THEN {Link("featuredImage", "Asset", e.featured_media, assetMap[e.featured_media])}
    ELSE {}

\* The link fields of the entry created for entity e of family f; a page also
\* links the section created for it.
EntryLinks(f, e, sec) ==
    CASE f = 2 -> ParentLinks(2, e)
      [] f = 4 -> CategoryLinks(e) \cup TagLinks(e) \cup AuthorLinks(e)
                  \cup FeaturedImageLinks(e)
      [] f = 5 -> {Link("sections", "Entry", 0, sec)}
                  \cup ParentLinks(5, e) \cup FeaturedImageLinks(e)
      [] OTHER -> {}

EntryOf(f, e, k, st, links) ==
    [id |-> EntryId(f, e.id, k), type |-> ContentTypes[f], wpId |-> e.id,
     state |-> st, src |-> e, links |-> links,
     content |-> IF f = 4 THEN richTextContent ELSE NoContent]

SectionOf(e, k, st) ==
    [id |-> SectionId(e.id, k), type |-> "richTextSection", wpId |-> e.id,
     state |-> st, src |-> e, links |-> {}, content |-> richTextContent]

\* How many entities of content type t the destination holds for source id d.
Made(t, d) == Cardinality({x \in dest : x.type = t /\ x.wpId = d})

\* Mutant of ContentStart: asset-map.json is not required.
ContentStart_NoAssetMap ==
    /\ script = "content" /\ pc = "start"
    /\ IF ~wpExport
       THEN /\ pc' = "error"
            /\ UNCHANGED <<fam, assetMap, entryMap>>
       ELSE /\ pc' = "family"
            /\ fam' = 1
            /\ assetMap' = LoadMap(assetFile)
            /\ entryMap' = LoadMap(entryFile)
    /\ UNCHANGED <<local, log, arg, ret, script, wpExport, attempt, list, i, seen, task, assetFile, entryFile, stats,
                   dest, called, file0, covered>>

\* The script up to the first family: the export and asset-map.json must
\* exist; the entry map is loaded if its file exists.
ContentStart ==
    /\ script = "content" /\ pc = "start"
    /\ IF ~wpExport \/ ~assetFile.exists
       THEN /\ pc' = "error"
            /\ UNCHANGED <<fam, assetMap, entryMap>>
       ELSE /\ pc' = "family"
            /\ fam' = 1
            /\ assetMap' = assetFile.map
            /\ entryMap' = LoadMap(entryFile)
    /\ UNCHANGED <<local, log, arg, ret, script, wpExport, attempt, list, i, seen, task, assetFile, entryFile, stats,
                   dest, called, file0, covered>>

\* Mutant of NextFamily: tags are migrated before categories.
NextFamily_TagsFirst(f) ==
    CASE f = 1 -> 3
      [] f = 3 -> 2
      [] f = 2 -> 4
      [] OTHER -> f + 1

\* The family migrated after family f: the script's sections 1 to 5 are
\* authors, categories, tags, posts, pages.
NextFamily(f) == f + 1

\* const users = wpData.users || []; stats.authors.total = users.length; and
\* likewise for each family.  wpData is an immutable snapshot, so a family's
\* list is drawn where the script first reads it.  A posts loop over no posts
\* runs no batch and so saves nothing.
BeginFamily ==
    /\ script = "content" /\ pc = "family"
    /\ \E l \in FamilyLists(fam, MaxEntities - seen) :
         /\ list' = ProcessingOrder(fam, l)
         /\ stats' = [stats EXCEPT ![Families[fam]].total = Len(l)]
         /\ covered' = (covered /\ \A a \in 1..Len(l) :
                                      Has(file0.map, MapKey(fam, l[a].id)))
         /\ IF Len(l) = 0 /\ fam = 4
            THEN pc' = "family" /\ fam' = NextFamily(fam) /\ i' = 0
            ELSE pc' = (IF Len(l) = 0 THEN "save" ELSE "loop") /\ fam' = fam /\ i' = 1
    /\ UNCHANGED <<local, log, arg, ret, script, wpExport, attempt, seen, task, assetFile, entryFile, assetMap, entryMap,
                   dest, called, file0>>

CurKey == MapKey(fam, list[i].id)


\* Where the script is after the entity at index i: posts are processed in
\* slices of BATCH_SIZE with a save after each, the other families with one
\* save after the family's loop.
AfterEntity ==
    IF i = Len(list) \/ (fam = 4 /\ i % BATCH_SIZE = 0) THEN "save" ELSE "loop"

\* Mutant of Skip: a mapped entity is passed over without being counted.
Skip_Uncounted ==
    /\ script = "content" /\ pc = "loop"
    /\ Has(entryMap, CurKey)
    /\ i' = i + 1
    /\ seen' = seen + 1
    /\ pc' = AfterEntity
    /\ UNCHANGED <<local, log, arg, ret, script, wpExport, attempt, fam, list, task, assetFile, entryFile, assetMap,
                   entryMap, stats, dest, called, file0, covered>>

\* if (entryMap[mapKey]) { stats.<family>.skipped++; continue; }
Skip ==
    /\ script = "content" /\ pc = "loop"
    /\ Has(entryMap, CurKey)
    /\ stats' = Count(Families[fam], "skipped")
    /\ i' = i + 1
    /\ seen' = seen + 1
    /\ pc' = AfterEntity
    /\ UNCHANGED <<local, log, arg, ret, script, wpExport, attempt, fam, list, task, assetFile, entryFile, assetMap,
                   entryMap, dest, called, file0, covered>>

\* Posts and pages: const richTextContent = transformer.transform(
\* x.content?.rendered || ''), a synchronous call that reads the maps as they
\* are now.
TransformContent ==
    /\ script = "content" /\ pc = "loop" /\ fam \in {4, 5}
    /\ ~Has(entryMap, CurKey)
    /\ ret' = transform(Body(fam, list[i]))
    /\ pc' = "transformed"
    /\ UNCHANGED <<local, log, arg, script, wpExport, attempt, fam, list, i, seen, task, assetFile, entryFile,
                   assetMap, entryMap, stats, dest, called, file0, covered>>

\* Pages: environment.createEntry('richTextSection', ...) returns.
CreateSection ==
    /\ script = "content" /\ pc = "transformed" /\ fam = 5
    /\ dest' = dest \cup {SectionOf(list[i], Made("richTextSection", list[i].id) + 1, "draft")}
    /\ called' = TRUE
    /\ pc' = "sectionCreated"
    /\ ret' = [done |-> FALSE]
    /\ UNCHANGED <<local, log, arg, script, wpExport, attempt, fam, list, i, seen, task, assetFile, entryFile,
                   assetMap, entryMap, stats, file0, covered>>

\* The section created for the page being migrated: the latest one.
Section ==
    CHOOSE e \in dest :
        e.id = SectionId(list[i].id, Made("richTextSection", list[i].id))

\* Pages: sectionEntry.publish() returns.
PublishSection ==
    /\ script = "content" /\ pc = "sectionCreated"
    /\ dest' = (dest \ {Section}) \cup {[Section EXCEPT !.state = "published"]}
    /\ pc' = "sectionPublished"
    /\ UNCHANGED <<local, log, arg, ret, script, wpExport, attempt, fam, list, i, seen, task, assetFile, entryFile,
                   assetMap, entryMap, stats, called, file0, covered>>

\* environment.createEntry(<content type>, { fields }) returns: the fields
\* are built from the maps as they are when the call is made.
CreateEntry ==
    /\ script = "content"
    /\ \/ pc = "loop" /\ fam \notin {4, 5} /\ ~Has(entryMap, CurKey)
       \/ pc = "transformed" /\ fam = 4
       \/ pc = "sectionPublished"
    /\ dest' = dest \cup {EntryOf(fam, list[i],
                                  Made(ContentTypes[fam], list[i].id) + 1, "draft",
                                  EntryLinks(fam, list[i], Section.id))}
    /\ called' = TRUE
    /\ pc' = "created"
    /\ ret' = [done |-> FALSE]
    /\ UNCHANGED <<local, log, arg, script, wpExport, attempt, fam, list, i, seen, task, assetFile, entryFile,
                   assetMap, entryMap, stats, file0, covered>>

\* The draft entry the script is about to publish.
Draft ==
    CHOOSE e \in dest :
        e.id = EntryId(fam, list[i].id, Made(ContentTypes[fam], list[i].id))

\* entryMap[mapKey] = entry.sys.id
CommitEntry == Put(entryMap, CurKey, Draft.id)

\* entry.publish() returns; entryMap[mapKey] = entry.sys.id;
\* stats.<family>.migrated++.
PublishEntry ==
    /\ script = "content" /\ pc = "created"
    /\ dest' = (dest \ {Draft}) \cup {[Draft EXCEPT !.state = "published"]}
    /\ entryMap' = CommitEntry
    /\ stats' = Count(Families[fam], "migrated")
    /\ i' = i + 1
    /\ seen' = seen + 1
    /\ pc' = AfterEntity
    /\ UNCHANGED <<local, log, arg, ret, script, wpExport, attempt, fam, list, task, assetFile, entryFile, assetMap,
                   called, file0, covered>>

\* Mutant of Raise: the error is not caught per entity and ends the run.
Raise_Abort ==
    /\ script = "content"
    /\ \/ pc = "loop" /\ ~Has(entryMap, CurKey)
       \/ pc \in {"transformed", "sectionCreated", "sectionPublished", "created"}
    /\ Fails < MaxFail
    /\ stats' = Count(Families[fam], "failed")
    /\ called' = TRUE
    /\ pc' = "error"
    /\ ret' = [done |-> FALSE]
    /\ UNCHANGED <<local, log, arg, script, wpExport, attempt, fam, list, i, seen, task, assetFile, entryFile,
                   assetMap, entryMap, dest, file0, covered>>

\* The call the entity awaits (or transforming it) raises:
\* catch (error) { stats.<family>.failed++ }, then the next entity.
Raise ==
    /\ script = "content"
    /\ \/ pc = "loop" /\ ~Has(entryMap, CurKey)
       \/ pc \in {"transformed", "sectionCreated", "sectionPublished", "created"}
    /\ Fails < MaxFail
    /\ stats' = Count(Families[fam], "failed")
    /\ called' = TRUE
    /\ i' = i + 1
    /\ seen' = seen + 1
    /\ pc' = AfterEntity
    /\ ret' = [done |-> FALSE]
    /\ UNCHANGED <<local, log, arg, script, wpExport, attempt, fam, list, task, assetFile, entryFile, assetMap,
                   entryMap, dest, file0, covered>>

\* saveProgress(): fs.writeJson(entryMapPath, entryMap); then the next batch
\* of posts, the next family, or the summary.
SaveProgress ==
    /\ script = "content" /\ pc = "save"
    /\ entryFile' = FileOf(entryMap)
    /\ IF i <= Len(list) THEN pc' = "loop" /\ fam' = fam /\ UNCHANGED <<list, i>>
       ELSE /\ list' = <<>>
            /\ i' = 0
            /\ IF fam = 5 THEN pc' = "done" /\ fam' = fam
               ELSE pc' = "family" /\ fam' = NextFamily(fam)
    /\ UNCHANGED <<local, log, arg, ret, script, wpExport, attempt, seen, task, assetFile, assetMap, entryMap,
                   stats, dest, called, file0, covered>>

NextContent ==
    \/ ContentStart
    \/ BeginFamily
    \/ Skip
    \/ TransformContent
    \/ CreateSection
    \/ PublishSection
    \/ CreateEntry
    \/ PublishEntry
    \/ Raise
    \/ SaveProgress

Next == NextAssets \/ NextContent

Spec == Init /\ [][Next]_vars

\* ------------------------------------------------- calls of the transformer
\* The scripts are not running while a call of the transformer is studied.
Idle ==
    /\ script = "transformer" /\ wpExport = FALSE /\ pc = "call"
    /\ fam = 0 /\ list = <<>> /\ i = 0 /\ seen = 0
    /\ task = <<>> /\ attempt = <<>>
    /\ assetFile = NoFile /\ entryFile = NoFile /\ file0 = NoFile
    /\ stats = [s \in StatNames |-> ZeroStats]
    /\ dest = {} /\ called = FALSE /\ covered = TRUE
    /\ local = NoLocals /\ log = <<>>

\* new RichTextTransformer(assetMap, entryMap): media item 1 and the
\* entities of source id 1 have been migrated.
Constructed == assetMap = OldAssetMap({1}) /\ entryMap = OldEntryMap(1)

\* What transform is called with: post.content?.rendered || '', or any value
\* of another type.
NotAString(type) == [type |-> type, empty |-> FALSE, childNodes |-> <<>>]

Html(nodes) == [type |-> "string", empty |-> FALSE, childNodes |-> nodes]

EmptyString == [type |-> "string", empty |-> TRUE, childNodes |-> <<>>]

Img(dataId, alt) ==
    ElementWith("img", [NoAttrs EXCEPT !.dataId = dataId, !.alt = alt, !.src = <<"u.png">>], <<>>)

Anchor(href, kids) == ElementWith("a", [NoAttrs EXCEPT !.href = href], kids)

\* Childless nodes: text, white space, a line break, a rule and an image of
\* an unknown media item; at the top of a document also a comment and an
\* image of a migrated media item.
InlineLeaves == {TextOf(<<"x">>), TextOf(<<" ">>), Element("br", <<>>)}

Leaves == InlineLeaves \cup {Element("hr", <<>>), Img(<<>>, <<>>)}

TopLeaves == Leaves \cup {Comment, Img(<<"1">>, <<"alt">>)}

\* The parser never returns two adjacent text nodes.
NoAdjacentText(nodes) ==
    \A k \in 1..(Len(nodes) - 1) : ~(nodes[k].nodeType = 3 /\ nodes[k + 1].nodeType = 3)

Siblings(S) == {nodes \in SeqsUpTo(S, MaxKids) : NoAdjacentText(nodes)}

NestTags == {"p", "h2", "ul", "blockquote", "div", "a", "strong", "em", "sub"}

\* An element of the input; a list holds its children in one item.
MakeElement(tag, kids) ==
    CASE tag = "a" -> Anchor(<<"u">>, kids)
      [] tag = "ul" -> Element("ul", <<Element("li", kids)>>)
      [] OTHER -> Element(tag, kids)

\* The elements that nest d deep: an element around childless nodes, wrapped
\* in d - 1 elements.
RECURSIVE Nested(_)
Nested(d) ==
    LET inner == IF d = 1
                 THEN Siblings(InlineLeaves) \cup {<<n>> : n \in Leaves \ InlineLeaves}
                 ELSE {<<n>> : n \in Nested(d - 1)}
    IN {MakeElement(tag, kids) : kids \in inner, tag \in NestTags}

\* Tables: up to MaxKids rows of up to MaxKids cells, directly in the table
\* or, for one row, in a tbody; a cell holds padded text or formatted text.
Cells ==
    {Element("td", <<TextOf(<<" ", "b", " ">>)>>),
     Element("th", <<Element("strong", <<TextOf(<<"c">>)>>), TextOf(<<"d">>)>>)}

Rows == {Element("tr", cells) : cells \in SeqsUpTo(Cells, MaxKids)}

Tables ==
    {Element("table", rows) : rows \in SeqsUpTo(Rows, MaxKids)}
    \cup {Element("table", <<Element("tbody", <<row>>)>>) : row \in Rows}

\* Lists: an item holds nothing, text, a nested list, or text and nested
\* lists in either order; a nested list holds no item, an empty item or an
\* item of text; and lists nest in a chain up to MaxDepth + 1 deep.
RECURSIVE ListChain(_)
ListChain(d) ==
    Element("ul", <<Element("li", <<TextOf(<<Digits[d + 1]>>)>>
                                   \o (IF d = 1 THEN <<>> ELSE <<ListChain(d - 1)>>))>>)

Lists ==
    LET A == TextOf(<<"A">>)
        Item(s) == Element("li", <<TextOf(s)>>)
        InnerLists ==
            {Element(t, items) :
                t \in {"ul", "ol"},
                items \in {<<>>, <<Element("li", <<>>)>>, <<Item(<<"B">>)>>,
                           <<Item(<<"B">>), Element("li", <<>>)>>}}
        ItemKids ==
            {<<>>, <<A>>,
             <<A, Element("ul", <<Item(<<"B">>)>>), Element("ol", <<Item(<<"C">>)>>)>>}
            \cup UNION {{<<l>>, <<A, l>>, <<l, A>>} : l \in InnerLists}
    IN {Element(t, <<Element("li", kids)>>) : t \in {"ul", "ol"}, kids \in ItemKids}
       \cup {Element("ul", <<>>), Element("ol", <<TextOf(<<" ">>)>>),
             Element("ul", <<Item(<<"A">>), Element("li", <<>>)>>)}
       \cup {ListChain(d) : d \in 1..(MaxDepth + 1)}

\* Media: a video, audio or iframe element, empty or with its fallback text,
\* after a text at block level, in a container, a paragraph, a heading, a
\* list item or an anchor.
Media ==
    LET els == {Element(t, kids) : t \in {"video", "audio", "iframe"},
                                   kids \in {<<>>, <<TextOf(<<"v">>)>>}}
        x == TextOf(<<"x">>)
    IN {<<x, m>> : m \in els}
       \cup {<<MakeElement(w, <<x, m>>)>> : w \in {"div", "p", "h2", "ul", "a"}, m \in els}

TransformInputs(depth) ==
    {NotAString(t) : t \in {"null", "undefined", "number", "object"}}
    \cup {EmptyString}
    \cup {Html(kids) : kids \in Siblings(TopLeaves)}
    \cup {Html(<<n>>) : n \in UNION {Nested(d) : d \in 1..depth}}
    \cup {Html(<<t>>) : t \in Tables}
    \cup {Html(<<l>>) : l \in Lists}
    \cup {Html(kids) : kids \in Media}

InitTransform ==
    /\ Idle /\ Constructed
    /\ arg \in TransformInputs(MaxDepth)
    /\ ret = NoCall

\* const richTextContent = transformer.transform(...)
Transform ==
    /\ ~ret.done
    /\ ret' = transform(arg)
    /\ UNCHANGED <<local, log, arg, script, wpExport, attempt, pc, fam, list, i, seen, task,
                   assetFile, entryFile, assetMap, entryMap, stats, dest, called,
                   file0, covered>>

SpecTransform == InitTransform /\ [][Transform]_vars

\* ------------------------------------------------------ calls on an anchor
\* The parameters of a query string: p with a number, with a number the
\* mapping does not have, with leading zero, zero, trailing text, no number;
\* another parameter; a parameter whose name ends in p.
QueryParams ==
    {<<"p", "=", "1">>, <<"p", "=", "2">>, <<"p", "=", "0", "1">>, <<"p", "=", "0">>,
     <<"p", "=", "1", "2">>, <<"p", "=", "1", "x">>, <<"p", "=", "x">>, <<"p", "=">>,
     <<"q", "=", "1">>, <<"x", "p", "=", "1">>}

\* The hrefs: a path, a query string of up to MaxParams parameters of which at
\* most one is named p, and a fragment.
Hrefs ==
    {base \o (IF params = <<>> THEN <<>> ELSE <<"?">> \o Join(params, <<"&">>)) \o frag :
        base \in {<<>>, <<"h", "/">>},
        params \in {ps \in SeqsUpTo(QueryParams, MaxParams) :
                       Cardinality({k \in 1..Len(ps) : Head(ps[k]) = "p"}) <= 1},
        frag \in {<<>>, <<"#", "p", "=", "1">>}}

LinkInputs == {Anchor(href, kids) : href \in Hrefs, kids \in {<<>>, <<TextOf(<<"x">>)>>}}

\* new RichTextTransformer(assetMap, entryMap) before or after the posts have
\* been migrated.
InitLink ==
    /\ Idle
    /\ assetMap = OldAssetMap({1})
    /\ entryMap \in {EmptyMap, OldEntryMap(1)}
    /\ arg \in LinkInputs
    /\ ret = NoCall

\* this.createHyperlink(node)
Hyperlink ==
    /\ ~ret.done
    /\ ret' = [done |-> TRUE, doc |-> createHyperlink(arg), warnings |-> <<>>]
    /\ UNCHANGED <<local, log, arg, script, wpExport, attempt, pc, fam, list, i, seen, task,
                   assetFile, entryFile, assetMap, entryMap, stats, dest, called,
                   file0, covered>>

SpecLink == InitLink /\ [][Hyperlink]_vars

\* ------------------------------------------------------ calls on an image
\* The images: data-id absent, a number, zero or not a number; a class with
\* or without wp-image-<id>; a src with or without a numeric path segment;
\* with and without alt.
ImageInputs ==
    {ElementWith("img", [href |-> <<>>, src |-> src, class |-> class,
                         dataId |-> dataId, alt |-> alt], <<>>) :
        dataId \in {<<>>, <<"1">>, <<"2">>, <<"0">>, <<"x">>},
        class \in {<<>>, <<"wp-image-", "1">>, <<"wp-image-", "2">>,
                   <<"c", " ", "wp-image-", "1">>, <<"wp-image-", "x">>, <<"c">>},
        src \in {<<>>, <<"u.png">>, <<"h", "/", "1", "/", "u.png">>,
                 <<"h", "/", "2", "/", "u.png">>, <<"h", "/", "1", "u.png">>,
                 <<"h", "/", "x", "/", "1", "/", "u.png">>},
        alt \in {<<>>, <<"alt">>}}

\* new RichTextTransformer(assetMap, entryMap) with an empty asset map or
\* with media item 1 migrated.
InitAsset ==
    /\ Idle
    /\ assetMap \in {EmptyMap, OldAssetMap({1})}
    /\ entryMap = OldEntryMap(1)
    /\ arg \in ImageInputs
    /\ ret = NoCall

\* this.createEmbeddedAsset(node), with the warning it pushes.
EmbeddedAsset ==
    /\ ~ret.done
    /\ ret' = [done |-> TRUE, doc |-> createEmbeddedAsset(arg),
                warnings |-> IF AssetResolves(arg) THEN <<>> ELSE <<AssetWarning(arg)>>]
    /\ UNCHANGED <<local, log, arg, script, wpExport, attempt, pc, fam, list, i, seen, task,
                   assetFile, entryFile, assetMap, entryMap, stats, dest, called,
                   file0, covered>>

SpecAsset == InitAsset /\ [][EmbeddedAsset]_vars

\* ------------------------------------------------ warnings of the transformer
\* transform without this.warnings = [].
ResetWarnings_Kept(warnings) == warnings

\* this.warnings = [] at the head of transform.
ResetWarnings(warnings) == <<>>

\* The warnings field after a call that returned r, on the transformer whose
\* field held warnings before: the call's pushes follow what the reset left.
Pushed(warnings, r) == [r EXCEPT !.warnings = ResetWarnings(warnings) \o @]

\* getWarnings()
getWarnings == ret.warnings

\* Bodies: a paragraph, a video, an iframe followed by a table.
WarnBodies ==
    {Html(<<Element("p", <<TextOf(<<"x">>)>>)>>),
     Html(<<Element("video", <<>>)>>),
     Html(<<Element("iframe", <<>>), Element("table", <<>>)>>)}

\* wpData.posts, wpData.pages: the entity at position k has source id k.
WarnLists ==
    {[k \in DOMAIN bs |-> [id |-> k, body |-> bs[k]]] : bs \in SeqsUpTo(WarnBodies, MaxBodies)}

\* migrate-content on a first run, sections 4 (posts) and 5 (pages), with the
\* transformer as the constructor leaves it; the destination is reduced to
\* whether its calls return or raise.
InitWarn ==
    /\ script = "content" /\ wpExport = TRUE /\ pc = "family" /\ fam = 4
    /\ list = <<>> /\ i = 0 /\ seen = 0 /\ task = <<>> /\ attempt = <<>>
    /\ assetFile = NoFile /\ entryFile = NoFile /\ file0 = NoFile
    /\ assetMap = EmptyMap /\ entryMap = EmptyMap
    /\ stats = [s \in StatNames |-> ZeroStats]
    /\ dest = {} /\ called = FALSE /\ covered = TRUE
    /\ arg = NoCall
    /\ ret = [done |-> FALSE, doc |-> NoContent, warnings |-> <<>>]
    /\ local = NoLocals /\ log = <<>>

\* Where the script is after the entity at index n of a list of length len.
WarnAfter(n, len) ==
    IF n < len THEN "loop" ELSE IF fam = 4 THEN "family" ELSE "done"

\* const posts = wpData.posts || []; const pages = wpData.pages || []
WarnBegin ==
    /\ script = "content" /\ pc = "family"
    /\ \E l \in WarnLists :
         /\ list' = l
         /\ stats' = [stats EXCEPT ![Families[fam]].total = Len(l)]
         /\ i' = IF Len(l) = 0 THEN 0 ELSE 1
         /\ pc' = WarnAfter(0, Len(l))
         /\ fam' = IF Len(l) = 0 /\ fam = 4 THEN 5 ELSE fam
    /\ UNCHANGED <<local, log, arg, ret, script, wpExport, attempt, seen, task, assetFile,
                   entryFile, assetMap, entryMap, dest, called, file0, covered>>

\* const richTextContent = transformer.transform(x.content?.rendered || '')
WarnTransform ==
    /\ script = "content" /\ pc = "loop" /\ ret.done = FALSE
    /\ ret' = Pushed(ret.warnings, transform(list[i].body))
    /\ UNCHANGED <<local, log, arg, script, wpExport, attempt, pc, fam, list, i, seen, task,
                   assetFile, entryFile, assetMap, entryMap, stats, dest, called,
                   file0, covered>>

\* The entity's calls return: entryMap[mapKey] = entry.sys.id;
\* stats.<family>.migrated++; and, for a post only,
\* warnings.forEach(w => console.log(w)).
WarnMigrated ==
    /\ script = "content" /\ pc = "loop" /\ ret.done
    /\ entryMap' = Put(entryMap, CurKey, EntryId(fam, list[i].id, 1))
    /\ stats' = Count(Families[fam], "migrated")
    /\ log' = IF fam = 4 /\ Len(getWarnings) > 0
              THEN Append(log, [wpId |-> list[i].id, warnings |-> getWarnings])
              ELSE log
    /\ called' = TRUE
    /\ ret' = [ret EXCEPT !.done = FALSE]
    /\ i' = i + 1
    /\ pc' = WarnAfter(i, Len(list))
    /\ fam' = IF i = Len(list) /\ fam = 4 THEN 5 ELSE fam
    /\ UNCHANGED <<local, arg, script, wpExport, attempt, list, seen, task, assetFile,
                   entryFile, assetMap, dest, file0, covered>>

\* A call of the entity raises: catch (error) { stats.<family>.failed++ }
WarnFailed ==
    /\ script = "content" /\ pc = "loop" /\ ret.done
    /\ stats' = Count(Families[fam], "failed")
    /\ called' = TRUE
    /\ ret' = [ret EXCEPT !.done = FALSE]
    /\ i' = i + 1
    /\ pc' = WarnAfter(i, Len(list))
    /\ fam' = IF i = Len(list) /\ fam = 4 THEN 5 ELSE fam
    /\ UNCHANGED <<local, log, arg, script, wpExport, attempt, list, seen, task, assetFile,
                   entryFile, assetMap, entryMap, dest, file0, covered>>

NextWarn == WarnBegin \/ WarnTransform \/ WarnMigrated \/ WarnFailed

SpecWarn == InitWarn /\ [][NextWarn]_vars

\* ------------------------------------------------------ the paginated export
\* scripts/01-export-wordpress.js, fetchAllPaginated(endpoint, params).  The
\* endpoint holds the items 1..arg.total and serves them per_page to a page.
TotalPages(n) == (n + per_page - 1) \div per_page

PageItems(n, k) ==
    [j \in 1..Min(per_page, n - (k - 1) * per_page) |-> (k - 1) * per_page + j]

Endpoints == {[total |-> n] : n \in 0..MaxItems}

\* response.data as the host sends it: the JSON array of the page's items,
\* the array wrapped in an object ({data: [...]}), another JSON object,
\* a JSON scalar, or text that is no JSON (an HTML page).
BodyKinds == {"array", "wrapped", "object", "scalar", "text"}

\* response.headers['x-wp-totalpages']: absent, or the endpoint's page count.
TotalPagesHeaders(n) == {<<>>, <<Digits[TotalPages(n) + 1]>>}

Responses(n, k) ==
    {[body |-> [kind |-> b, items |-> PageItems(n, k)], totalpages |-> h] :
        b \in BodyKinds, h \in TotalPagesHeaders(n)}

\* data after JSON.parse and the Array.isArray tests: what does not parse,
\* and what is neither an array nor wraps one, counts as the empty array.
DataOf(body) == IF body.kind \in {"array", "wrapped"} THEN body.items ELSE <<>>

\* The warning printed for the body, if any.
BodyWarning(body) ==
    CASE body.kind = "text" -> <<"invalid JSON">>
      [] body.kind = "object" -> <<"Unexpected response format">>
      [] body.kind = "scalar" -> <<"Expected array">>
      [] OTHER -> <<>>

\* parseInt(response.headers['x-wp-totalpages'] || '1')
HeaderTotalPages(h) == ParseInt(IF h = <<>> THEN <<"1">> ELSE h)

\* The statuses a failed request carries: 400, another one (500), none.
Statuses == {400, 500, 0}

\* if (error.response?.status === 400 && page > 1) break; throw error
NoMorePages_Always(status, page) == status = 400

NoMorePages(status, page) == status = 400 /\ page > 1

InitExport ==
    /\ script = "export" /\ wpExport = FALSE /\ pc = "fetch" /\ fam = 0
    /\ list = <<>> /\ i = 0 /\ seen = 0 /\ task = <<>> /\ attempt = <<>>
    /\ assetFile = NoFile /\ entryFile = NoFile /\ file0 = NoFile
    /\ assetMap = EmptyMap /\ entryMap = EmptyMap
    /\ stats = [s \in StatNames |-> ZeroStats]
    /\ dest = {} /\ called = FALSE /\ covered = TRUE
    /\ arg \in Endpoints
    /\ ret = NoCall
    /\ local = [page |-> 1, allItems |-> <<>>]
    /\ log = <<>>

\* One turn of while (true) in which wpClient.get returns.
GetPage ==
    /\ script = "export" /\ pc = "fetch"
    /\ \E response \in Responses(arg.total, local.page) :
         LET data == DataOf(response.body)
             allItems == local.allItems \o data
             totalPages == HeaderTotalPages(response.totalpages)
         IN /\ log' = log \o [k \in DOMAIN BodyWarning(response.body) |->
                                [warning |-> BodyWarning(response.body)[k], page |-> local.page]]
                          \o <<[page |-> local.page, totalPages |-> totalPages,
                                items |-> Len(allItems)]>>
            /\ IF local.page >= totalPages
               THEN /\ local' = [local EXCEPT !.allItems = allItems]
                    /\ pc' = "returned"
                    /\ ret' = [done |-> TRUE, value |-> allItems]
               ELSE /\ local' = [page |-> local.page + 1, allItems |-> allItems]
                    /\ UNCHANGED <<pc, ret>>
    /\ UNCHANGED <<arg, script, wpExport, attempt, fam, list, i, seen, task, assetFile,
                   entryFile, assetMap, entryMap, stats, dest, called, file0, covered>>

\* One turn in which wpClient.get raises: catch (error).
GetRaised ==
    /\ script = "export" /\ pc = "fetch"
    /\ \E status \in Statuses :
         IF NoMorePages(status, local.page)
         THEN pc' = "returned" /\ ret' = [done |-> TRUE, value |-> local.allItems]
         ELSE pc' = "thrown" /\ ret' = [done |-> TRUE, thrown |-> status]
    /\ UNCHANGED <<local, log, arg, script, wpExport, attempt, fam, list, i, seen, task,
                   assetFile, entryFile, assetMap, entryMap, stats, dest, called,
                   file0, covered>>

NextExport == GetPage \/ GetRaised

SpecExport == InitExport /\ [][NextExport]_vars

\* ----------------------------------------------------- deleting the assets
\* scripts/delete-assets.js (src/unnamed/part_002), deleteAssets().
\* Object.values(assetMap): the keys of the map are media ids, which a
\* JavaScript object enumerates in ascending order.
RECURSIVE Values(_)
Values(m) ==
    IF DOMAIN m = {} THEN <<>>
    ELSE LET k == CHOOSE x \in DOMAIN m : \A y \in DOMAIN m : x <= y
         IN <<m[k]>> \o Values([x \in DOMAIN m \ {k} |-> m[x]])

\* An asset of the destination: a draft, or published.
StoredAsset(id, st) == [id |-> id, type |-> "asset", state |-> st]

\* The destinations a run can meet: each mapped asset is gone, a draft, or
\* published.
Destinations(m) ==
    {{StoredAsset(m[k], st[k]) : k \in {x \in DOMAIN m : st[x] # "gone"}} :
        st \in [DOMAIN m -> {"gone", "draft", "published"}]}

InitDelete ==
    /\ script = "delete" /\ wpExport = FALSE /\ pc = "start" /\ fam = 0
    /\ list = <<>> /\ i = 0 /\ seen = 0 /\ task = <<>> /\ attempt = <<>>
    /\ assetFile \in AssetFiles /\ file0 = assetFile
    /\ entryFile = NoFile
    /\ assetMap = EmptyMap /\ entryMap = EmptyMap
    /\ stats = [s \in StatNames |-> ZeroStats]
    /\ dest \in Destinations(assetFile.map) /\ called = FALSE /\ covered = TRUE
    /\ arg = NoCall /\ ret = NoCall
    /\ local = NoLocals /\ log = <<>>

\* The tasks of the batch at offset off: each starts with getAsset.
DeleteBatch(off, n) ==
    [j \in 1..n |-> IF j \in Batch(off, n) THEN "getAsset" ELSE IF j <= off THEN "settled" ELSE "idle"]

\* if (!pathExists) return; assetIds = Object.values(readJson);
\* if (count === 0) return; deleted = 0; failed = 0; the first batch.
DeleteStart ==
    /\ script = "delete" /\ pc = "start"
    /\ IF ~assetFile.exists \/ DOMAIN assetFile.map = {}
       THEN pc' = "nothing" /\ UNCHANGED <<list, task, local, assetMap>>
       ELSE /\ assetMap' = assetFile.map
            /\ list' = Values(assetFile.map)
            /\ task' = DeleteBatch(0, Len(list'))
            /\ local' = [deleted |-> 0, failed |-> 0]
            /\ pc' = "batch"
    /\ UNCHANGED <<log, arg, ret, script, wpExport, attempt, fam, i, seen, assetFile,
                   entryFile, entryMap, stats, dest, called, file0, covered>>

\* The asset of task j, if the destination holds it.
Stored(j) == {a \in dest : a.id = list[j]}

\* The call task j awaits returns.
DeleteStep(j) ==
    /\ script = "delete" /\ pc = "batch" /\ task[j] \in {"getAsset", "unpublish", "delete"}
    /\ Stored(j) # {}
    /\ LET asset == CHOOSE a \in Stored(j) : TRUE
       IN CASE task[j] = "getAsset" ->
                 /\ task' = [task EXCEPT ![j] = IF asset.state = "published"
                                                THEN "unpublish" ELSE "delete"]
                 /\ UNCHANGED <<dest, local>>
            [] task[j] = "unpublish" ->
                 /\ dest' = (dest \ {asset}) \cup {StoredAsset(asset.id, "draft")}
                 /\ task' = [task EXCEPT ![j] = "delete"]
                 /\ UNCHANGED local
            [] task[j] = "delete" ->
                 /\ dest' = dest \ {asset}
                 /\ task' = [task EXCEPT ![j] = "settled"]
                 /\ local' = [local EXCEPT !.deleted = @ + 1]
    /\ called' = TRUE
    /\ UNCHANGED <<log, arg, ret, script, wpExport, attempt, pc, fam, list, i, seen,
                   assetFile, entryFile, assetMap, entryMap, stats, file0, covered>>

\* getAsset of an asset the destination does not hold raises NotFound:
\* failed++; deleted++.
DeleteNotFound(j) ==
    /\ script = "delete" /\ pc = "batch" /\ task[j] = "getAsset"
    /\ Stored(j) = {}
    /\ task' = [task EXCEPT ![j] = "settled"]
    /\ local' = [deleted |-> local.deleted + 1, failed |-> local.failed + 1]
    /\ called' = TRUE
    /\ UNCHANGED <<log, arg, ret, script, wpExport, attempt, pc, fam, list, i, seen,
                   assetFile, entryFile, assetMap, entryMap, stats, dest, file0, covered>>

\* The call task j awaits raises another error: failed++; console.error.
DeleteRaise(j) ==
    /\ script = "delete" /\ pc = "batch" /\ task[j] \in {"getAsset", "unpublish", "delete"}
    /\ Stored(j) # {}
    /\ Len(log) < MaxFail
    /\ task' = [task EXCEPT ![j] = "settled"]
    /\ local' = [local EXCEPT !.failed = @ + 1]
    /\ log' = Append(log, [failed |-> list[j]])
    /\ called' = TRUE
    /\ UNCHANGED <<arg, ret, script, wpExport, attempt, pc, fam, list, i, seen,
                   assetFile, entryFile, assetMap, entryMap, stats, dest, file0, covered>>

\* What is written to asset-map.json after the loop.
ClearedMap(m) == EmptyMap

\* Promise.all of the batch has settled: the next batch, or, after the last,
\* fs.writeJson(assetMapPath, {}).
DeleteFinishBatch ==
    /\ script = "delete" /\ pc = "batch"
    /\ \A j \in Batch(i, Len(list)) : task[j] = "settled"
    /\ IF i + BATCH_SIZE < Len(list)
       THEN /\ i' = i + BATCH_SIZE
            /\ task' = DeleteBatch(i', Len(list))
            /\ UNCHANGED <<pc, assetFile>>
       ELSE /\ assetFile' = FileOf(ClearedMap(assetMap))
            /\ pc' = "done"
            /\ UNCHANGED <<i, task>>
    /\ UNCHANGED <<local, log, arg, ret, script, wpExport, attempt, fam, list, seen,
                   entryFile, assetMap, entryMap, stats, dest, called, file0, covered>>

NextDelete ==
    \/ DeleteStart
    \/ \E j \in DOMAIN task : DeleteStep(j)
    \/ \E j \in DOMAIN task : DeleteNotFound(j)
    \/ \E j \in DOMAIN task : DeleteRaise(j)
    \/ DeleteFinishBatch

SpecDelete == InitDelete /\ [][NextDelete]_vars

\* ------------------------------------------------- validating the migration
\* scripts/05-validate-migration.js (src/unnamed/part_002), validate().
\* wp-export.json: the ids of its posts, pages and categories; every post
\* names the categories refs; the posts carry no tags and no featured image,
\* and the export holds no tags, media or users.
ValidateExports ==
    {[posts |-> P, pages |-> G, categories |-> C, refs |-> R,
      tags |-> {}, media |-> {}, users |-> {}] :
        P \in SUBSET Ids, G \in SUBSET (1..MaxHier), C \in SUBSET {1}, R \in SUBSET {1}}

\* entry-map.json: any set of post, page and category keys, of entities of
\* the export or of others.
ValidateMaps ==
    {[k \in K |-> OldId(CHOOSE f \in 1..5 : Prefixes[f] = k[1], k[2])] :
        K \in SUBSET ({MapKey(4, d) : d \in Ids} \cup {MapKey(5, d) : d \in 1..MaxHier}
                        \cup {MapKey(2, 1)})}

InitValidate ==
    /\ script = "validate" /\ wpExport \in BOOLEAN /\ pc = "start" /\ fam = 0
    /\ list = <<>> /\ i = 0 /\ seen = 0 /\ task = <<>> /\ attempt = <<>>
    /\ assetFile = NoFile
    /\ entryFile \in {NoFile} \cup {FileOf(m) : m \in ValidateMaps}
    /\ file0 = entryFile
    /\ assetMap = EmptyMap /\ entryMap = EmptyMap
    /\ stats = [s \in StatNames |-> ZeroStats]
    /\ dest = {} /\ called = FALSE /\ covered = TRUE
    /\ arg \in ValidateExports
    /\ ret = NoCall
    /\ local = NoLocals /\ log = <<>>

\* Object.keys(entryMap).filter(k => k.startsWith(prefix)).length
KeysWith(m, f) == Cardinality({k \in DOMAIN m : k[1] = Prefixes[f]})

\* report.counts
WordpressCounts(wpData) ==
    [posts |-> Cardinality(wpData.posts), pages |-> Cardinality(wpData.pages),
     categories |-> Cardinality(wpData.categories), tags |-> Cardinality(wpData.tags),
     media |-> Cardinality(wpData.media), users |-> Cardinality(wpData.users)]

MigratedCounts(m, am) ==
    [posts |-> KeysWith(m, 4), pages |-> KeysWith(m, 5), categories |-> KeysWith(m, 2),
     tags |-> KeysWith(m, 3), assets |-> Cardinality(DOMAIN am), authors |-> KeysWith(m, 1)]

\* compareAndLog(type, wpCount, migratedCount): the issue it pushes, if any.
compareAndLog(type, wpCount, migratedCount) ==
    IF migratedCount < wpCount
    THEN <<[type |-> "incomplete_migration", contentType |-> type,
            missing |-> wpCount - migratedCount]>>
    ELSE <<>>

\* Section 3: the category references of the posts that have no mapping
\* (the posts of the model carry no tags and no featured image).
OrphanedIssue(wpData, m) ==
    LET orphanedCategories ==
            Cardinality({<<p, c>> \in wpData.posts \X wpData.refs : ~Has(m, MapKey(2, c))})
    IN IF orphanedCategories > 0
       THEN <<[type |-> "orphaned_references", contentType |-> "Categories",
               missing |-> orphanedCategories]>>
       ELSE <<>>

\* Section 4: missingPosts, missingPages
Missing(ids, m, f) == {d \in ids : ~Has(m, MapKey(f, d))}

\* Math.round((totalMigrated / totalExpected) * 100); 0 / 0 is NaN, which is
\* neither 100 nor at least 95, as 0 is.  A positive count over 0 is
\* Infinity, which is not 100 and is at least 95: modelled as 101.
Percentage(totalMigrated, totalExpected) ==
    IF totalExpected = 0 THEN (IF totalMigrated = 0 THEN 0 ELSE 101)
    ELSE (200 * totalMigrated + totalExpected) \div (2 * totalExpected)

\* if (report.issues.length === 0 && percentage === 100)
Passed(report) == report.issues = <<>> /\ report.percentage = 100

\* The report of a run on wpData and the two maps.
Report(wpData, m, am) ==
    LET wordpress == WordpressCounts(wpData)
        migrated == MigratedCounts(m, am)
    IN [done |-> TRUE,
        issues |-> compareAndLog("Posts", wordpress.posts, migrated.posts)
                   \o compareAndLog("Pages", wordpress.pages, migrated.pages)
                   \o compareAndLog("Categories", wordpress.categories, migrated.categories)
                   \o compareAndLog("Tags", wordpress.tags, migrated.tags)
                   \o compareAndLog("Media/Assets", wordpress.media, migrated.assets)
                   \o compareAndLog("Users/Authors", wordpress.users, migrated.authors)
                   \o OrphanedIssue(wpData, m),
        missingPosts |-> Missing(wpData.posts, m, 4),
        missingPages |-> Missing(wpData.pages, m, 5),
        percentage |-> Percentage(
            migrated.posts + migrated.pages + migrated.categories + migrated.tags,
            wordpress.posts + wordpress.pages + wordpress.categories + wordpress.tags)]

\* wp-export.json or entry-map.json is not there: process.exit(1).
ValidateExit ==
    /\ script = "validate" /\ pc = "start"
    /\ ~wpExport \/ ~entryFile.exists
    /\ pc' = "exit"
    /\ log' = <<IF ~wpExport THEN "wp-export.json not found" ELSE "entry-map.json not found">>
    /\ UNCHANGED <<local, arg, ret, script, wpExport, attempt, fam, list, i, seen, task,
                   assetFile, entryFile, assetMap, entryMap, stats, dest, called,
                   file0, covered>>

\* The run on both files: the report, and the verdict it prints.
Validate ==
    /\ script = "validate" /\ pc = "start"
    /\ wpExport /\ entryFile.exists
    /\ entryMap' = entryFile.map
    /\ assetMap' = LoadMap(assetFile)
    /\ ret' = Report(arg, entryMap', assetMap')
    /\ log' = <<IF Passed(ret') THEN "Migration validation passed"
                ELSE IF ret'.percentage >= 95 THEN "Migration mostly complete"
                ELSE "Migration incomplete">>
    /\ pc' = "done"
    /\ UNCHANGED <<local, arg, script, wpExport, attempt, fam, list, i, seen, task,
                   assetFile, entryFile, stats, dest, called, file0, covered>>

NextValidate == ValidateExit \/ Validate

SpecValidate == InitValidate /\ [][NextValidate]_vars

\* ================================================================ claims
\* The script's own map, in memory and on disk.
OwnMap == IF script = "assets" THEN assetMap ELSE entryMap

OwnFile == IF script = "assets" THEN assetFile ELSE entryFile

\* The script has loaded its map and not ended in an error.
Loaded == pc \notin {"start", "error"} /\ (script = "assets" => list # <<>>)

\* The family of a content type.
FamOf(t) == IF t = "richTextSection" THEN 5 ELSE CHOOSE f \in 1..5 : ContentTypes[f] = t

\* The map key of a destination entity.
KeyOf(e) == IF e.type = "asset" THEN e.wpId ELSE MapKey(FamOf(e.type), e.wpId)

\* The entities of the destination that stand for a source entity (a section
\* is part of its page).
Entities == {e \in dest : e.type # "richTextSection"}

\* Mappings committed in memory that the map file does not hold.
Unflushed == DOMAIN OwnMap \ DOMAIN OwnFile.map

\* ---------------------------------------------------------------- C1
C1_SkipStep ==
    /\ (script = "content" /\ pc = "loop" /\ Has(entryMap, CurKey))
         => /\ stats' = Count(Families[fam], "skipped")
            /\ UNCHANGED <<dest, called, entryMap, entryFile>>
    /\ (script = "assets" /\ pc = "batch")
         => /\ \A j \in Batch(i, Len(list)) :
                  Has(assetMap, list[j].id) => task'[j] = "skipped"
            /\ stats'["assets"].skipped = stats["assets"].skipped
                 + Cardinality({j \in Batch(i, Len(list)) : Has(assetMap, list[j].id)})
    /\ \A j \in DOMAIN task :
          task[j] = "skipped" =>
             task'[j] = "skipped" /\ \A e \in dest' : e.id # AssetId(j)

C1_Resumed ==
    (pc = "done" /\ covered)
      => /\ ~called
         /\ dest = {}
         /\ \A s \in StatNames :
              stats[s].migrated = 0 /\ stats[s].skipped = stats[s].total

\* C1: an entity whose key is in the identity map when it is reached is counted
\* as skipped and causes no destination call; a run whose map file holds a
\* mapping for every entity of the export makes no destination call and ends
\* with migrated = 0 and skipped = total in every family.
C1_IdempotentResume == [][C1_SkipStep /\ C1_Resumed']_vars

\* A finished run of migrate-content that skipped a post and a run of
\* migrate-assets that skipped two media items, every entity being mapped.
C1_Witness ==
    /\ pc = "done" /\ covered
    /\ stats["posts"].skipped >= 1 \/ stats["assets"].skipped >= 2

\* ---------------------------------------------------------------- C2
\* C2: a mapping that has been set keeps its destination id: no step of a run
\* overwrites or removes it, in the asset map and in the entry map.
C2_NeverOverwritten == [][Kept(assetMap, assetMap') /\ Kept(entryMap, entryMap')]_vars

\* ---------------------------------------------------------------- C3
\* The mapping of key k to id v was made by an earlier run, or v is the id of
\* a published entity of the destination made for k (for a page: whose section
\* is published too).
FullyWritten(k, v) ==
    \/ Has(file0.map, k) /\ file0.map[k] = v
    \/ \E e \in Entities :
         /\ e.id = v /\ KeyOf(e) = k /\ e.state = "published"
         /\ e.type = "page" =>
              \E l \in e.links : \E x \in dest :
                 l.field = "sections" /\ x.id = l.id /\ x.state = "published"

C3_MapHoldsWritten == \A k \in DOMAIN OwnMap : FullyWritten(k, OwnMap[k])

\* C3: every key of the identity map belongs to an entity whose whole write
\* sequence completed (created, for assets processed, and published), and a
\* step in which a call raises leaves the maps unchanged.
C3_CommitAfterSuccess ==
    [][C3_MapHoldsWritten' /\ (Fails' > Fails => UNCHANGED <<assetMap, entryMap>>)]_vars

\* A call has raised and the map holds a mapping made by this run.
C3_Witness ==
    /\ Fails >= 1
    /\ \E k \in DOMAIN OwnMap : ~Has(file0.map, k)

\* ---------------------------------------------------------------- C4
\* Every entity of the run has been attempted: no media task is pending or
\* in flight; every entity of the five families has been reached.
AllAttempted ==
    IF script = "assets"
    THEN \A j \in DOMAIN task : task[j] \in {"skipped", "done", "failed"}
    ELSE seen = stats["authors"].total + stats["categories"].total
                + stats["tags"].total + stats["posts"].total + stats["pages"].total

\* C4: a raise counts one entity as failed and never ends the run: a run ends
\* in an error only before its first entity, and a finished run has attempted
\* every entity and its map holds the earlier mappings and exactly the keys
\* of the entities written successfully.
C4_FailureIsolation ==
    /\ pc = "error" => Fails = 0 /\ ~called /\ dest = {}
    /\ (pc = "done" /\ Loaded) =>
         /\ AllAttempted
         /\ DOMAIN OwnMap = DOMAIN LoadMap(file0)
                              \cup {KeyOf(e) : e \in {x \in Entities : x.state = "published"}}
         /\ \A s \in StatNames :
              /\ stats[s].total = stats[s].migrated + stats[s].skipped + stats[s].failed
              /\ stats[s].migrated =
                   Cardinality({e \in Entities : e.state = "published"
                                   /\ e.type = (IF s = "assets" THEN "asset"
                                                ELSE ContentTypes[CHOOSE f \in 1..5 : Families[f] = s])})

\* A finished run in which an author failed and a later post was migrated, or
\* one media item failed and two were migrated.
C4_Witness ==
    /\ pc = "done"
    /\ \/ stats["authors"].failed = 1 /\ stats["posts"].migrated = 1
       \/ stats["assets"].failed = 1 /\ stats["assets"].migrated = 2

PostsBatch(a) == {b \in 1..Len(list) : (b - 1) \div BATCH_SIZE = (a - 1) \div BATCH_SIZE}

UnitInProgress ==
    IF script = "assets" THEN {list[j].id : j \in Batch(i, Len(list))}
    ELSE IF fam = 4
    THEN {MapKey(4, list[b].id) : b \in PostsBatch(IF pc = "save" THEN i - 1 ELSE i)}
    ELSE {MapKey(fam, list[b].id) : b \in 1..Len(list)}

C6_BatchesSequential ==
    /\ \A j \in DOMAIN task :
          /\ task[j] \in InFlight => pc = "await" /\ j \in Batch(i, Len(list))
          /\ j <= i => task[j] \in {"skipped", "done", "failed"}
          /\ j > i + BATCH_SIZE => task[j] = "pending"
    /\ (script = "assets" /\ pc = "batch" /\ i > 0) => assetFile = FileOf(assetMap)
    /\ (script = "content" /\ fam = 4 /\ pc = "loop" /\ i > 1 /\ (i - 1) % BATCH_SIZE = 0)
          => entryFile = FileOf(entryMap)

\* A task of the second batch of media is in flight.
C6_Witness ==
    /\ script = "assets" /\ i > 0
    /\ \E j \in DOMAIN task : task[j] \in InFlight

\* ---------------------------------------------------------------- C7
\* C7: every mapping of the script's map file at the start of a run is in the
\* file, with the same destination id, when the run has ended.
C7_MappingsPersist ==
    pc \in {"done", "error"} => Kept(file0.map, OwnFile.map)

\* ---------------------------------------------------------------- C8
\* An entity of family g is about to be attempted.
Unattempted(g) == script = "content" /\ fam = g /\ pc = "loop"

\* The claimed order: authors, tags, categories, posts, pages.
ClaimedRank(f) == CASE f = 2 -> 3 [] f = 3 -> 2 [] OTHER -> f

\* C8 as stated in the specification: no entity is written while an entity of a family earlier in
\* the order authors, tags, categories, posts, pages is still to be attempted.
C8_Original ==
    script = "content" =>
      \A e \in dest : \A g \in 1..5 :
         ClaimedRank(g) < ClaimedRank(FamOf(e.type)) => ~Unattempted(g)

\* C8 as amended: the order is authors, categories, tags, posts, pages: every
\* entity the destination holds is of the family in progress or of an earlier
\* one in this order, so none is written before its family's turn.
C8_FamilyOrder ==
    script = "content" => \A e \in dest : FamOf(e.type) <= fam

\* A tag has been created and the destination already holds a category.
C8_Witness ==
    /\ script = "content" /\ fam = 3 /\ pc = "created"
    /\ \E e \in dest : e.type = "category"

\* ---------------------------------------------------------------- C9
\* The entries of the destination made for the family in progress.
FamilyEntries == {e \in dest : script = "content" /\ list # <<>> /\ e.type = ContentTypes[fam]}

HasParentLink(e) == \E l \in e.links : l.field = "parent" /\ l.ref = e.src.parent

FirstRun == Fails = 0 /\ DOMAIN LoadMap(file0) = {}

\* No entity of l is its own ancestor.
Acyclic(l) ==
    \A S \in SUBSET (1..Len(l)) \ {{}} :
       \E a \in S : \A b \in S : l[a].parent # l[b].id

\* C9: in categories and pages, whatever the depth of the hierarchy and the
\* ids, every entity whose parent is in the family is processed after its
\* parent, and in a failure-free first run is written with its parent link.
C9_Original ==
    (script = "content" /\ IsHier(fam) /\ Acyclic(list)) =>
      /\ \A a, b \in 1..Len(list) : list[b].parent = list[a].id => a < b
      /\ FirstRun =>
           \A e \in FamilyEntries :
              (\E a \in 1..Len(list) : list[a].id = e.src.parent) => HasParentLink(e)

\* ---------------------------------------------------------------- C10
\* The references of a source entity of family f: field, link type and
\* source id.
Refs(f, src) ==
    (IF f \in {2, 5} /\ src.parent # 0 THEN {<<"parent", f, src.parent>>} ELSE {})
    \cup (IF f = 4 THEN {<<"categories", 2, c>> : c \in src.categories}
                          \cup {<<"tags", 3, t>> : t \in src.tags}
                          \cup {<<"author", 1, src.author>>}
          ELSE {})
    \cup (IF f \in {4, 5} /\ src.featured_media # 0
          THEN {<<"featuredImage", 0, src.featured_media>>} ELSE {})

\* Reference r has a mapping, to destination id v.
Resolves(r) ==
    IF r[2] = 0 THEN Has(assetMap, r[3]) ELSE Has(entryMap, MapKey(r[2], r[3]))

Target(r) == IF r[2] = 0 THEN assetMap[r[3]] ELSE entryMap[MapKey(r[2], r[3])]

\* Entry e is written with a link for exactly its resolved references.
LinksResolved(e) ==
    LET refs == Refs(FamOf(e.type), e.src)
        links == {l \in e.links : l.field # "sections"}
    IN /\ \A l \in links :
            \E r \in refs : r[1] = l.field /\ r[3] = l.ref /\ Resolves(r) /\ l.id = Target(r)
       /\ \A r \in refs :
            Resolves(r) <=> \E l \in links : l.field = r[1] /\ l.ref = r[3]

C10_Step ==
    /\ \A e \in dest' \ dest : e.type \notin {"asset", "richTextSection"} => LinksResolved(e)
    /\ (pc' = "done" /\ Fails' = 0 /\ Loaded') =>
          \A s \in StatNames : stats'[s].migrated + stats'[s].skipped = stats'[s].total

\* C10: an entry is created with a link for each reference that has a mapping
\* and without the others, whatever is unresolved; unresolved references make
\* no entity fail: a run in which no call raises migrates or skips every entity.
C10_UnresolvedOmitted == [][C10_Step]_vars

\* A published post with some categories linked and others omitted, and a
\* published category without the link to its missing parent.
C10_Witness ==
    \/ \E e \in dest :
         /\ e.type = "blogPost" /\ e.state = "published"
         /\ \E l \in e.links : l.field = "categories"
         /\ \E c \in e.src.categories : \A l \in e.links : ~(l.field = "categories" /\ l.ref = c)
         /\ \A l \in e.links : l.field # "featuredImage"
    \/ \E e \in dest :
         /\ e.type = "category" /\ e.state = "published"
         /\ e.src.parent # 0 /\ e.links = {}

\* ---------------------------------------------------------------- C11
\* A required input of the run is missing.
MissingInput == ~wpExport \/ (script = "content" /\ ~assetFile.exists)

C11_Step ==
    (pc = "start" /\ MissingInput) =>
       /\ pc' = "error"
       /\ UNCHANGED <<assetFile, entryFile, assetMap, entryMap, dest, called>>

\* C11: a run without its export, and a migrate-content run without
\* asset-map.json, ends in an error at its first step, with no destination
\* call made and no map file created or modified.
C11_FatalInputs ==
    [][C11_Step /\ (pc' = "error" => dest' = {} /\ ~called' /\ OwnFile' = file0')]_vars

\* A migrate-content run has ended in an error for want of asset-map.json,
\* with the export and an entry map in place.
C11_Witness ==
    /\ pc = "error" /\ script = "content"
    /\ wpExport /\ ~assetFile.exists /\ entryFile.exists

\* ---------------------------------------------------------------- C12
Settled == {"skipped", "done", "failed"}

C12_Step ==
    /\ \A j \in DOMAIN task :
          /\ task[j] \in Settled => task'[j] = task[j]
          /\ (task[j] \in InFlight /\ task'[j] # task[j])
                => task'[j] \in {AfterStage(task[j]), "failed"}
    /\ \A e \in (dest' \ dest) \cup (dest \ dest') :
          IF script = "assets"
          THEN \E j \in DOMAIN task : e.id = AssetId(j) /\ task[j] \in InFlight
          ELSE e.wpId = list[i].id
    /\ (script = "content" /\ Fails' > Fails) => i' = i + 1 /\ dest' = dest
    /\ (script = "content" /\ list # <<>> /\ list' = list) => i' >= i

C13_Fetch(j) ==
    /\ task'[j] # "wait" => attempt'[j] = 0
    /\ task'[j] = "wait" => attempt'[j] = attempt[j] + 1 /\ UNCHANGED <<dest, stats, assetMap>>
    /\ task'[j] = "publish" =>
          /\ AssetOf(j, "processed") \in dest'
          /\ UNCHANGED <<stats, assetMap>>
    /\ task'[j] = "failed" =>
          /\ stats' = Count("assets", "failed")
          /\ UNCHANGED <<assetMap, dest, pc>>
          /\ \A k \in DOMAIN task : k # j => task'[k] = task[k]

C13_Step ==
    \A j \in DOMAIN task :
       (task[j] = "wait" /\ (task'[j] # "wait" \/ attempt'[j] # attempt[j]))
          => C13_Fetch(j)

\* C13: a task in waitForProcessing has made fewer than maxAttempts fetches
\* that found no url; a fetch that finds the url returns the processed asset
\* and the task goes on to publish; a fetch that does not is followed by
\* another, or by the timeout, which counts the asset as failed, adds no
\* mapping and leaves the other tasks and the run alone.
C13_WaitBounded ==
    [][C13_Step /\ \A j \in DOMAIN attempt' : attempt'[j] < maxAttempts]_vars

\* A task is in waitForProcessing with one attempt left, every earlier fetch
\* having found no url, while another task of the batch has migrated its asset.
C13_Witness ==
    \E j, k \in DOMAIN task :
       /\ task[j] = "wait" /\ attempt[j] = maxAttempts - 1
       /\ task[k] = "done"

\* --------------------------------------------------------------- documents
\* The nodes of a rich-text tree, the root included.
RECURSIVE NodesOf(_)
NodesOf(n) == {n} \cup UNION {NodesOf(n.content[k]) : k \in 1..Len(n.content)}

\* The blocks that have no children by nature.
Childless == {"hr", "embedded-asset-block"}

BlockTypes ==
    {"paragraph", "heading-2", "heading-3", "heading-4", "unordered-list",
     "ordered-list", "list-item", "blockquote"} \cup Childless

InlineTypes == {"hyperlink", "entry-hyperlink"}

\* C14: document validity.  In the tree transform returns, every block has a
\* non-empty content unless it is a horizontal rule or an embedded asset, and
\* no paragraph, heading or link has an empty inline content.
C14_DocumentValid ==
    ret.done =>
       \A n \in NodesOf(ret.doc) :
          n.nodeType \in (BlockTypes \ Childless) \cup InlineTypes \cup {"document"}
             => n.content # <<>>

\* The input holds nothing but white space and comments.
Blank(wpHtml) ==
    \A k \in 1..Len(wpHtml.childNodes) :
       LET n == wpHtml.childNodes[k]
       IN n.nodeType = 8 \/ (n.nodeType = 3 /\ Trim(n.text) = <<>>)

\* The input is not a non-empty string, or its processing produces no block.
NoBlock(wpHtml) ==
    \/ wpHtml.type # "string" \/ wpHtml.empty
    \/ Blank(wpHtml)
    \/ processNodes(wpHtml.childNodes) = <<>>

\* C15: transform returns a document for every input; the document's content
\* is never empty; and for an empty string, a value that is not a string, or
\* an input whose processing produces no block, the result is the canonical
\* empty document: one paragraph holding one text-run with empty value.
C15_NeverFails ==
    ret.done =>
       /\ ret.doc.nodeType = "document"
       /\ ret.doc.content # <<>>
       /\ NoBlock(arg) =>
             ret.doc = RichNode("document", NoData,
                                <<RichNode("paragraph", NoData, <<TextRun(<<>>, <<>>)>>)>>)

\* An input with nodes but no block has been transformed, and an input that
\* is not a string too.
C15_Witness ==
    /\ ret.done /\ arg.type = "string" /\ arg.childNodes # <<>> /\ NoBlock(arg)
    /\ \E k \in 1..Len(arg.childNodes) : arg.childNodes[k].nodeType = 1

\* C16: every direct child of the root of the document transform returns is
\* a block node (paragraph, heading, list, blockquote, horizontal rule,
\* embedded asset), never a text-run or a link.
C16_RootHoldsBlocks ==
    ret.done =>
       \A k \in 1..Len(ret.doc.content) : ret.doc.content[k].nodeType \in BlockTypes

\* ------------------------------------------------------------------- links
\* s split at every c.
RECURSIVE SplitOn(_, _)
SplitOn(s, c) ==
    IF \A k \in 1..Len(s) : s[k] # c THEN <<s>>
    ELSE LET k == CHOOSE j \in 1..Len(s) : s[j] = c /\ \A h \in 1..(j - 1) : s[h] # c
         IN <<SubSeq(s, 1, k - 1)>> \o SplitOn(SubSeq(s, k + 1, Len(s)), c)

\* The parameters of the href's query string: what follows the first "?" up
\* to the fragment, split at "&".
QueryOf(href) ==
    LET parts == SplitOn(SplitOn(href, "#")[1], "?")
    IN IF Len(parts) < 2 THEN <<>> ELSE SplitOn(Join(Tail(parts), <<"?">>), "&")

\* The post ids N the href names with a query parameter p=N.
PostIdsOf(href) ==
    {ParseInt(SubSeq(q, 3, Len(q))) :
        q \in {QueryOf(href)[k] : k \in {j \in 1..Len(QueryOf(href)) :
                 /\ Starts(QueryOf(href)[j], <<"p", "=">>)
                 /\ LeadingDigits(SubSeq(QueryOf(href)[j], 3, Len(QueryOf(href)[j]))) > 0}}}

NumberOf(s) ==
    IF s # <<>> /\ \A k \in 1..Len(s) : IsDigit(s[k]) THEN Decimal(s) ELSE 0

\* The first number in a sequence of numbers that is not 0, 0 if there is none.
RECURSIVE FirstId(_)
FirstId(ns) == IF ns = <<>> THEN 0 ELSE IF Head(ns) # 0 THEN Head(ns) ELSE FirstId(Tail(ns))

\* The media id the image's markup names: the data attribute, then the class
\* wp-image-<id>, then the first numeric segment of the src path.
SourceIdOf(img) ==
    LET names == SplitOn(img.attrs.class, " ")
        byClass == [k \in 1..Len(names) |->
                      IF names[k] # <<>> /\ Head(names[k]) = "wp-image-"
                      THEN NumberOf(Tail(names[k])) ELSE 0]
        segments == SplitOn(img.attrs.src, "/")
        bySrc == [k \in 1..Len(segments) |->
                    IF 1 < k /\ k < Len(segments) THEN NumberOf(segments[k]) ELSE 0]
    IN FirstId(<<NumberOf(img.attrs.dataId), FirstId(byClass), FirstId(bySrc)>>)

\* C18: asset resolution and fallback.  createEmbeddedAsset gives an
\* embedded-asset block for the mapped asset exactly when the image names a
\* media id that the asset map holds; otherwise it gives one paragraph with
\* one italic text-run "[Image: <alt, or src when alt is empty>]" and records
\* one asset-not-found warning.
C18_AssetFallback ==
    ret.done =>
       LET id == SourceIdOf(arg)
           label == IF arg.attrs.alt # <<>> THEN arg.attrs.alt ELSE arg.attrs.src
       IN IF id # 0 /\ id \in DOMAIN assetMap
          THEN /\ ret.doc.nodeType = "embedded-asset-block"
               /\ ret.doc.data = [kind |-> "Asset", ref |-> assetMap[id]]
               /\ ret.warnings = <<>>
          ELSE /\ ret.doc.nodeType = "paragraph"
               /\ Len(ret.doc.content) = 1
               /\ ret.doc.content[1].nodeType = "text"
               /\ ret.doc.content[1].value = <<"[Image: ">> \o label \o <<"]">>
               /\ ret.doc.content[1].marks = <<"italic">>
               /\ Len(ret.warnings) = 1 /\ ret.warnings[1].kind = "asset"

\* An image whose data attribute names an unknown media item and whose class
\* names a migrated one has become the fallback paragraph.
C18_Witness ==
    /\ ret.done /\ ret.doc.nodeType = "paragraph"
    /\ arg.attrs.dataId = <<"2">> /\ arg.attrs.class = <<"wp-image-", "1">>
    /\ 1 \in DOMAIN assetMap

\* ------------------------------------------------------------------- marks
\* The texts under a node of the input, each with the marks of the formatting
\* elements that enclose it.
RECURSIVE MarkedTexts(_, _)
MarkedTexts(node, marks) ==
    IF node.nodeType = 3 THEN {<<node.text, marks>>}
    ELSE LET inner == IF node.nodeType = 1 /\ node.tagName \in MarkTags
                      THEN marks \cup {getMarkType(node.tagName)} ELSE marks
         IN UNION {MarkedTexts(node.childNodes[k], inner) : k \in 1..Len(node.childNodes)}

\* Text, line breaks and formatting elements only.
RECURSIVE Formatted(_)
Formatted(node) ==
    \/ node.nodeType = 3
    \/ /\ node.nodeType = 1 /\ node.tagName \in MarkTags \cup {"br"}
       /\ \A k \in 1..Len(node.childNodes) : Formatted(node.childNodes[k])

\* The input is formatted text at block level or in a paragraph, a heading or
\* the item of a list.
FormattedInput(wpHtml) ==
    /\ wpHtml.type = "string" /\ Len(wpHtml.childNodes) = 1
    /\ LET n == wpHtml.childNodes[1] IN
       \/ Formatted(n) /\ n.nodeType = 1
       \/ /\ n.nodeType = 1 /\ n.tagName \in {"p", "h2", "li"}
          /\ \A k \in 1..Len(n.childNodes) : Formatted(n.childNodes[k])
       \/ /\ n.nodeType = 1 /\ n.tagName = "ul" /\ Len(n.childNodes) = 1
          /\ \A k \in 1..Len(n.childNodes[1].childNodes) :
                Formatted(n.childNodes[1].childNodes[k])

\* C19: mark union.  For formatted text at block level or inside a paragraph,
\* a heading or a list item, every piece of text is a text-run of the document
\* whose marks hold the mark of every formatting element that encloses it.
C19_MarkUnion ==
    ret.done /\ FormattedInput(arg) =>
       \A t \in MarkedTexts(arg.childNodes[1], {}) :
          \E run \in NodesOf(ret.doc) :
             /\ run.nodeType = "text" /\ run.value = t[1]
             /\ \A m \in t[2] : \E k \in 1..Len(run.marks) : run.marks[k] = m

\* ------------------------------------------------------------------ tables
\* The rows of a table: its tr children and those of its tbody.
RowsOf(table) ==
    Concat([k \in 1..Len(table.childNodes) |->
              LET c == table.childNodes[k] IN
              IF c.tagName = "tr" THEN <<c>>
              ELSE IF c.tagName = "tbody"
              THEN SelectSeq(c.childNodes, LAMBDA r : r.tagName = "tr")
              ELSE <<>>])

\* One row as text: the trimmed texts of its cells with " | " between them.
RECURSIVE RowText(_)
RowText(cells) ==
    IF cells = <<>> THEN <<>>
    ELSE Trim(TextContent(Head(cells)))
         \o (IF Len(cells) > 1 THEN <<" | ">> \o RowText(Tail(cells)) ELSE <<>>)

\* The rows as text with a newline between them.
RECURSIVE TableText(_)
TableText(rows) ==
    IF rows = <<>> THEN <<>>
    ELSE RowText(SelectSeq(Head(rows).childNodes, LAMBDA c : c.tagName \in {"td", "th"}))
         \o (IF Len(rows) > 1 THEN <<"\n">> \o TableText(Tail(rows)) ELSE <<>>)

IsTable(wpHtml) ==
    /\ wpHtml.type = "string" /\ Len(wpHtml.childNodes) = 1
    /\ wpHtml.childNodes[1].nodeType = 1 /\ wpHtml.childNodes[1].tagName = "table"

\* C20: table degradation.  A table at block level gives exactly one
\* paragraph with one unmarked text-run whose value is the trimmed texts of
\* each row's cells joined by " | " and the rows joined by a newline; one
\* table warning is recorded and the tree holds no table node.
C20_TableDegradation ==
    ret.done /\ IsTable(arg) =>
       /\ Len(ret.doc.content) = 1
       /\ ret.doc.content[1].nodeType = "paragraph"
       /\ Len(ret.doc.content[1].content) = 1
       /\ ret.doc.content[1].content[1].nodeType = "text"
       /\ ret.doc.content[1].content[1].marks = <<>>
       /\ ret.doc.content[1].content[1].value = TableText(RowsOf(arg.childNodes[1]))
       /\ Len(ret.warnings) = 1 /\ ret.warnings[1].kind = "table"
       /\ \A n \in NodesOf(ret.doc) : n.nodeType \in BlockTypes \cup InlineTypes \cup {"document", "text"}

\* A table of two rows of two cells, padded and formatted, has been converted.
C20_Witness ==
    /\ ret.done /\ IsTable(arg)
    /\ Len(arg.childNodes[1].childNodes) = 2
    /\ \A k \in 1..2 : /\ arg.childNodes[1].childNodes[k].tagName = "tr"
                       /\ Len(arg.childNodes[1].childNodes[k].childNodes) = 2
    /\ arg.childNodes[1].childNodes[1].childNodes[1].tagName = "td"
    /\ arg.childNodes[1].childNodes[1].childNodes[2].tagName = "th"

\* ----------------------------------------------------------------- orphans
\* C21: no orphaned or duplicated destination entities.  Whenever a create
\* call has succeeded for a source entity, its mapping is recorded, so that
\* no later run creates it again: when a run has finished, every entity it
\* created in the destination has its source entity's key in the map file,
\* and an entry or asset is the one the file maps the key to.
C21_NoOrphans ==
    pc = "done" =>
       \A e \in dest :
          /\ Has(OwnFile.map, KeyOf(e))
          /\ e.type # "richTextSection" => OwnFile.map[KeyOf(e)] = e.id

\* --------------------------------------------------------------- live map
\* The anchors of a post entry's content, the n-th being the one to post n.
AnchorsOf(e) == e.content.content[1].content

\* The entry this run has published for post n, if any.
PublishedPosts(n) ==
    {e \in dest : e.type = "blogPost" /\ e.wpId = n /\ e.state = "published"}

\* C22: the transformer reads the live entry map.  In the entry created for a
\* post B, the anchor to a post A that this run has migrated before B is an
\* entry-link to A's destination id; the anchor to a post A that has no
\* mapping yet (A comes after B, or A failed, and no earlier run migrated A)
\* is an external hyperlink with the original URL.  B is created all the
\* same, and no later step of the run changes its content or goes back to it.
C22_Step ==
    /\ script = "content" /\ fam = 4 /\ pc = "transformed" /\ pc' = "created" =>
          \E b \in dest' \ dest :
             /\ b.type = "blogPost" /\ b.wpId = list[i].id
             /\ \A n \in Ids :
                  /\ \A a \in PublishedPosts(n) :
                        /\ AnchorsOf(b)[n].nodeType = "entry-hyperlink"
                        /\ AnchorsOf(b)[n].data = [kind |-> "Entry", ref |-> a.id]
                  /\ PublishedPosts(n) = {} /\ <<"post", n>> \notin DOMAIN file0.map =>
                        /\ AnchorsOf(b)[n].nodeType = "hyperlink"
                        /\ AnchorsOf(b)[n].data = [kind |-> "uri", ref |-> PostUrl(n)]
    /\ \A e \in dest : e.type = "blogPost" =>
          \E e2 \in dest' : e2.id = e.id /\ e2.content = e.content
    /\ script = "content" /\ fam = 4 /\ fam' = 4 => i' >= i

TasksInFlight == {j \in DOMAIN task : task[j] \in InFlight}

\* migrate-content is awaiting a call for the entity at index i.
EntityInFlight == script = "content" /\ pc \in {"sectionCreated", "sectionPublished", "created"}

\* C23: bounded concurrency.  At every moment at most BATCH_SIZE entities
\* have a destination write in flight, and all of them belong to the batch in
\* progress; migrate-content has at most one, the entity it is processing.
C23_BoundedConcurrency ==
    /\ Cardinality(TasksInFlight) <= BATCH_SIZE
    /\ TasksInFlight # {} =>
          /\ script = "assets" /\ pc = "await"
          /\ \A j \in TasksInFlight : i < j /\ j <= i + BATCH_SIZE /\ j <= Len(list)
    /\ EntityInFlight => TasksInFlight = {} /\ i \in 1..Len(list)

\* A full batch is in flight while a later media item waits for its batch.
C23_Witness ==
    /\ Cardinality(TasksInFlight) = BATCH_SIZE
    /\ \E j \in DOMAIN task : task[j] = "pending"

\* The tasks of the run with outcome o.
TasksWith(o) == {j \in DOMAIN task : task[j] = o}

\* C24: commutativity of concurrent commits.  The asset map and the
\* statistics are a function of the tasks' outcomes, whatever the order in
\* which the tasks of a batch complete: the map holds the loaded mappings
\* and, for every task that has published its asset, the mapping of its
\* media id to that asset; the counters are the numbers of tasks published,
\* skipped and failed.
C24_OrderIndependent ==
    script = "assets" /\ pc \in {"batch", "await", "done"} /\ task # <<>> =>
       /\ \A j \in TasksWith("done") :
             Has(assetMap, list[j].id) /\ assetMap[list[j].id] = AssetId(j)
       /\ \A k \in DOMAIN assetMap :
             \/ Has(file0.map, k) /\ assetMap[k] = file0.map[k]
             \/ \E j \in TasksWith("done") : list[j].id = k
       /\ stats["assets"].migrated = Cardinality(TasksWith("done"))
       /\ stats["assets"].skipped = Cardinality(TasksWith("skipped"))
       /\ stats["assets"].failed = Cardinality(TasksWith("failed"))

\* -------------------------------------------------------------- statistics
\* migrated + skipped + failed of a family or of the assets.
Counted(s) == stats[s].migrated + stats[s].skipped + stats[s].failed

\* C25: statistics conservation.  Every entity increments exactly one of
\* migrated, skipped and failed: while a loop runs the three counters add up
\* to the number of entities it has passed (of tasks that have settled), and
\* when a family's loop or the asset migration has finished they add up to
\* the family's total.
C25_StatsConserved ==
    /\ script = "assets" /\ pc \in {"batch", "await", "done"} =>
          /\ Counted("assets") = Cardinality({j \in DOMAIN task : task[j] \in Settled})
          /\ pc = "done" => Counted("assets") = stats["assets"].total
    /\ script = "content" =>
          \A f \in 1..5 :
             /\ f < fam \/ pc = "done" => Counted(Families[f]) = stats[Families[f]].total
             /\ f = fam /\ list # <<>> /\ pc \notin {"family", "done"} =>
                   /\ Counted(Families[f]) = i - 1
                   /\ stats[Families[f]].total = Len(list)
             /\ f > fam => Counted(Families[f]) = 0

\* A run has finished with a family of which one entity was skipped, one
\* failed and one was migrated.
C25_Witness ==
    /\ pc = "done"
    /\ \E s \in StatNames :
          stats[s].migrated = 1 /\ stats[s].skipped = 1 /\ stats[s].failed = 1

\* ------------------------------------------------------------- roots first
\* C26: roots first.  Categories and pages are processed in an order in which
\* every entity without parent (parent reference 0) comes before every entity
\* with a parent, and entities of equal parent reference keep their export
\* order (in the export the k entities of the family have the ids 1..k).
C26_RootsFirst ==
    script = "content" /\ IsHier(fam) /\ list # <<>> =>
       /\ {list[a].id : a \in 1..Len(list)} = 1..Len(list)
       /\ \A a, b \in 1..Len(list) :
             a < b =>
                /\ ~(list[a].parent # 0 /\ list[b].parent = 0)
                /\ list[a].parent = list[b].parent => list[a].id < list[b].id

\* A root that the export lists after a child is being processed first.
C26_Witness ==
    /\ script = "content" /\ IsHier(fam) /\ pc = "loop" /\ Len(list) = 2
    /\ list[1].id = 2 /\ list[1].parent = 0 /\ list[2].parent # 0

\* ------------------------------------------------------------- blockquotes
IsBlockquote(wpHtml) ==
    /\ wpHtml.type = "string" /\ Len(wpHtml.childNodes) = 1
    /\ wpHtml.childNodes[1].nodeType = 1 /\ wpHtml.childNodes[1].tagName = "blockquote"

\* C27: the children of a blockquote node are all paragraphs, and when the
\* blockquote's processed children hold no paragraph (bare text, a list, a
\* heading, an image) its content is the single paragraph made of the
\* blockquote's own inline content.
C27_BlockquoteKeepsText ==
    ret.done /\ IsBlockquote(arg) =>
       LET quote == arg.childNodes[1]
           blocks == processNodes(quote.childNodes)
       IN /\ Len(ret.doc.content) = 1
          /\ ret.doc.content[1].nodeType = "blockquote"
          /\ \A k \in 1..Len(ret.doc.content[1].content) :
                ret.doc.content[1].content[k].nodeType = "paragraph"
          /\ (\A k \in 1..Len(blocks) : blocks[k].nodeType # "paragraph") =>
                ret.doc.content[1].content =
                   <<[nodeType |-> "paragraph", data |-> NoData,
                      content |-> processInlineContent(quote, FALSE),
                      value |-> <<>>, marks |-> <<>>]>>

\* ------------------------------------------------------------ empty blocks
\* The input is one paragraph or heading element whose inline content
\* resolves to nothing: no children, or only an empty text-run.
EmptyBlockInput(wpHtml) ==
    /\ wpHtml.type = "string" /\ Len(wpHtml.childNodes) = 1
    /\ wpHtml.childNodes[1].nodeType = 1
    /\ wpHtml.childNodes[1].tagName \in {"p", "h1", "h2", "h3", "h4", "h5", "h6"}
    /\ processInlineContent(wpHtml.childNodes[1], FALSE) \in {<<>>, <<TextRun(<<>>, <<>>)>>}

\* C28: a paragraph or heading element whose inline content resolves to
\* nothing produces no block: the document holds no paragraph and no heading
\* made for it, only the empty paragraph of the empty document.
C28_EmptyBlocksDropped ==
    ret.done /\ EmptyBlockInput(arg) =>
       /\ \A n \in NodesOf(ret.doc) :
             n.nodeType \notin {"heading-2", "heading-3", "heading-4"}
       /\ ret.doc.content = <<RichNode("paragraph", NoData, <<TextRun(<<>>, <<>>)>>)>>

\* ---- C29: items and lists without content ----
IsList(wpHtml) ==
    /\ wpHtml.type = "string" /\ Len(wpHtml.childNodes) = 1
    /\ wpHtml.childNodes[1].nodeType = 1
    /\ wpHtml.childNodes[1].tagName \in {"ul", "ol"}

IsLi(c) == c.nodeType = 1 /\ c.tagName = "li"

LiChildren(l) == SelectSeq(l.childNodes, IsLi)

\* An item that has nothing to show: no child at all, or one child that is a
\* list without any item.
EmptyItem(li) ==
    \/ li.childNodes = <<>>
    \/ /\ Len(li.childNodes) = 1
       /\ li.childNodes[1].nodeType = 1
       /\ li.childNodes[1].tagName \in {"ul", "ol"}
       /\ LiChildren(li.childNodes[1]) = <<>>

ListItemsOf(doc) ==
    IF doc.content # <<>> /\ doc.content[1].nodeType \in {"unordered-list", "ordered-list"}
    THEN doc.content[1].content ELSE <<>>

\* C29: for a body that is one list, the list node holds one list-item per
\* li that is not empty, and when no li is left (all empty, or none at all)
\* the document holds no list and no list-item node.
C29_EmptyItemsOmitted ==
    ret.done /\ IsList(arg) =>
        LET kept == SelectSeq(LiChildren(arg.childNodes[1]), LAMBDA c : ~EmptyItem(c))
        IN /\ Len(ListItemsOf(ret.doc)) = Len(kept)
           /\ kept = <<>> =>
                \A n \in NodesOf(ret.doc) :
                    n.nodeType \notin {"unordered-list", "ordered-list", "list-item"}

\* ---- C30: nested lists ----
IsListElement(c) == c.nodeType = 1 /\ c.tagName \in {"ul", "ol"}

\* The texts an item holds itself, outside its nested lists.
OwnTexts(li) ==
    LET texts == SelectSeq(li.childNodes, LAMBDA c : c.nodeType = 3)
    IN [k \in 1..Len(texts) |-> texts[k].text]

\* The nested lists of an item that have an item of their own.
ShownLists(li) ==
    SelectSeq(li.childNodes, LAMBDA c : IsListElement(c) /\ LiChildren(c) # <<>>)

\* The list has items and nothing else, and every item, at any depth, holds a
\* text or a nested list, and nothing but texts and lists.
RECURSIVE PlainList(_)
PlainList(l) ==
    /\ IsListElement(l) /\ l.childNodes # <<>>
    /\ \A k \in 1..Len(l.childNodes) :
          LET li == l.childNodes[k]
          IN /\ IsLi(li) /\ ~EmptyItem(li)
             /\ \A j \in 1..Len(li.childNodes) :
                   LET c == li.childNodes[j]
                   IN \/ c.nodeType = 3
                      \/ IsListElement(c) /\ (LiChildren(c) # <<>> => PlainList(c))

\* The list node keeps the list: its type, one list-item per li, and in each
\* list-item a leading paragraph of the item's own texts followed by the
\* nodes of its nested lists, in document order.
RECURSIVE Preserved(_, _)
PreservedItem(li, item) ==
    LET own == OwnTexts(li)
        nested == ShownLists(li)
    IN /\ item.nodeType = "list-item"
       /\ Len(item.content) = 1 + Len(nested)
       /\ item.content[1].nodeType = "paragraph"
       /\ item.content[1].content =
             (IF own = <<>> THEN <<TextRun(<<>>, <<>>)>>
              ELSE [k \in 1..Len(own) |-> TextRun(own[k], <<>>)])
       /\ \A j \in 1..Len(nested) : Preserved(nested[j], item.content[j + 1])

Preserved(l, node) ==
    /\ node.nodeType = (IF l.tagName = "ul" THEN "unordered-list" ELSE "ordered-list")
    /\ Len(node.content) = Len(l.childNodes)
    /\ \A k \in 1..Len(l.childNodes) : PreservedItem(l.childNodes[k], node.content[k])

\* C30: a body that is one list whose items hold texts and directly nested
\* lists yields a document of one list node that keeps the nesting at every
\* depth: each list-item is a leading paragraph of the item's own texts, then
\* one list node per nested list, in document order and of the nested list's
\* own type, and no text of a nested list is in the leading paragraph.
C30_NestingPreserved ==
    ret.done /\ IsList(arg) /\ PlainList(arg.childNodes[1]) =>
        /\ Len(ret.doc.content) = 1
        /\ Preserved(arg.childNodes[1], ret.doc.content[1])

\* <ul><li>A<ul><li>B</li></ul></li></ul>
C30_Witness ==
    /\ ret.done
    /\ arg = Html(<<Element("ul", <<Element("li",
                 <<TextOf(<<"A">>), Element("ul", <<Element("li", <<TextOf(<<"B">>)>>)>>)>>)>>)>>)
    /\ ret.doc.content =
         <<RichNode("unordered-list", NoData, <<RichNode("list-item", NoData,
              <<RichNode("paragraph", NoData, <<TextRun(<<"A">>, <<>>)>>),
                RichNode("unordered-list", NoData, <<RichNode("list-item", NoData,
                   <<RichNode("paragraph", NoData, <<TextRun(<<"B">>, <<>>)>>)>>)>>)>>)>>)>>

\* ---- C31: marks ----
\* C31: no text-run of the output carries the same mark type twice.
C31_MarksAreSets ==
    ret.done =>
       \A run \in NodesOf(ret.doc) :
          \A j, k \in 1..Len(run.marks) : run.marks[j] = run.marks[k] => j = k

\* ---- C32: anchors without inline content ----
IsLink(n) == n.nodeType \in {"hyperlink", "entry-hyperlink", "asset-hyperlink"}

\* The body is one anchor that holds nothing, or images only.
BareAnchor(wpHtml) ==
    /\ wpHtml.type = "string" /\ Len(wpHtml.childNodes) = 1
    /\ wpHtml.childNodes[1].nodeType = 1 /\ wpHtml.childNodes[1].tagName = "a"
    /\ \A k \in 1..Len(wpHtml.childNodes[1].childNodes) :
          LET c == wpHtml.childNodes[1].childNodes[k]
          IN c.nodeType = 1 /\ c.tagName = "img"

\* C32: no link node of the output has an empty content list or one that is
\* a single empty text-run, and an anchor without inline content yields a
\* link whose content is one text-run of the href, or of "link" when the href
\* is empty.
C32_LinkNeverEmpty ==
    ret.done =>
       /\ \A n \in NodesOf(ret.doc) :
             IsLink(n) => n.content # <<>> /\ n.content # <<TextRun(<<>>, <<>>)>>
       /\ BareAnchor(arg) =>
             LET href == arg.childNodes[1].attrs.href
             IN \E n \in NodesOf(ret.doc) :
                   /\ IsLink(n)
                   /\ n.content = <<TextRun(IF href # <<>> THEN href ELSE <<"link">>, <<>>)>>

\* ---- C33: video, audio, iframe ----
MediaTags == {"video", "audio", "iframe"}

\* The body holds one media element; its other text is "x".
MediaInput(wpHtml) ==
    wpHtml.type = "string" /\ Len(QuerySelectorAll(wpHtml, MediaTags)) = 1

\* C33: a video, audio or iframe element adds no node and no text to the
\* output, wherever it is: every text-run of the document is the text "x" that
\* stands next to it, and the call records exactly one warning, of the
\* element's kind.
C33_MediaSkipped ==
    ret.done /\ MediaInput(arg) =>
       /\ \A n \in NodesOf(ret.doc) : n.nodeType = "text" => n.value = <<"x">>
       /\ Len(ret.warnings) = 1
       /\ ret.warnings[1].kind = QuerySelectorAll(arg, MediaTags)[1].tagName

\* ---- C34: images ----
\* An embedded-asset block, or the paragraph that stands for an image whose
\* asset is not found.
IsImageNode(n) ==
    \/ n.nodeType = "embedded-asset-block"
    \/ /\ n.nodeType = "paragraph" /\ Len(n.content) = 1
       /\ n.content[1].nodeType = "text"
       /\ n.content[1].value # <<>> /\ n.content[1].value[1] = "[Image: "

RECURSIVE Sum(_)
Sum(s) == IF s = <<>> THEN 0 ELSE Head(s) + Sum(Tail(s))

\* How many image nodes the tree holds.
RECURSIVE CountImages(_)
CountImages(n) ==
    (IF IsImageNode(n) THEN 1 ELSE 0)
    + Sum([k \in 1..Len(n.content) |-> CountImages(n.content[k])])

\* C34: the output holds one image node per img element of the input, be it
\* at block level or inside a paragraph, an anchor or another element: none
\* is emitted twice and none is dropped.
C34_ImagesOnce ==
    ret.done /\ arg.type = "string" /\ ~arg.empty =>
       CountImages(ret.doc) = Len(QuerySelectorAll(arg, {"img"}))

\* ---- C35: warnings are per call ----
\* The kinds of warnings a body produces, read off the body.
ExpectedKinds(body) ==
    IF body = Html(<<Element("video", <<>>)>>) THEN <<"video">>
    ELSE IF body = Html(<<Element("iframe", <<>>), Element("table", <<>>)>>)
    THEN <<"iframe", "table">>
    ELSE <<>>

Kinds(warnings) == [k \in DOMAIN warnings |-> warnings[k].kind]

\* C35: after transform(x), getWarnings() holds the warnings of x and none of
\* an earlier call on the same transformer, and what migrate-content prints
\* for a post are the warnings of that post's own body.
C35_Step ==
    /\ ~ret.done /\ ret'.done => Kinds(ret'.warnings) = ExpectedKinds(list[i].body)
    /\ log' # log =>
          /\ Len(log') = Len(log) + 1
          /\ log'[Len(log')].wpId = list[i].id
          /\ Kinds(log'[Len(log')].warnings) = ExpectedKinds(list[i].body)

C35_WarningsPerCall == [][C35_Step]_vars

\* Two posts in a row were migrated with different warnings, each printed
\* with its own.
C35_Witness ==
    /\ Len(log) = 2
    /\ log[1].wpId = 1 /\ Kinds(log[1].warnings) = <<"iframe", "table">>
    /\ log[2].wpId = 2 /\ Kinds(log[2].warnings) = <<"video">>

\* ---- C36: warnings are reported ----
\* C36: when an entity with a body (a post or a page) is counted as migrated
\* and its transformation produced warnings, the step prints those warnings
\* with the entity's id.
C36_Step ==
    stats'[Families[fam]].migrated > stats[Families[fam]].migrated /\ getWarnings # <<>> =>
        log' = Append(log, [wpId |-> list[i].id, warnings |-> getWarnings])

C36_WarningsReported == [][C36_Step]_vars

\* ---- C37: the paginated export ----
\* The items of every page 1..totalPages of the endpoint, in order.
RECURSIVE PagesUpTo(_, _)
PagesUpTo(n, k) == IF k = 0 THEN <<>> ELSE PagesUpTo(n, k - 1) \o PageItems(n, k)

\* Every response the function has read reported the endpoint's page count.
FixedTotalPages ==
    \A k \in DOMAIN log :
        "totalPages" \in DOMAIN log[k] => log[k].totalPages = TotalPages(arg.total)

\* C37: whenever fetchAllPaginated returns normally from an endpoint that
\* reports a fixed total page count, its result is the in-order concatenation
\* of the items of every page 1..totalPages: no page's items are missing.
C37_AllPagesReturned ==
    script = "export" /\ pc = "returned" /\ FixedTotalPages =>
        ret.value = PagesUpTo(arg.total, TotalPages(arg.total))

\* ---- C38: delete-assets and the map ----
\* The mapped assets whose deletion failed for another reason than NotFound.
FailedToDelete == {k \in DOMAIN file0.map : \E n \in DOMAIN log : log[n].failed = file0.map[k]}

\* C38: after delete-assets finishes, every asset whose deletion failed for a
\* reason other than NotFound still has its mapping in asset-map.json, and
\* the map has lost only mappings whose destination asset no longer exists.
C38_FailedKept ==
    script = "delete" /\ pc = "done" =>
        /\ \A k \in FailedToDelete : Has(assetFile.map, k) /\ assetFile.map[k] = file0.map[k]
        /\ \A k \in DOMAIN file0.map \ DOMAIN assetFile.map :
             ~\E a \in dest : a.id = file0.map[k]

\* ---- C39: the verdict of the validation ----
\* C39: the validation prints 'Migration validation passed' only when every
\* post and every page of the export has a mapping in entry-map.json, for any
\* content of the map file, keys of entities not in the export included.
C39_PassedMeansMapped ==
    script = "validate" /\ log = <<"Migration validation passed">> =>
        /\ \A d \in arg.posts : Has(entryFile.map, MapKey(4, d))
        /\ \A d \in arg.pages : Has(entryFile.map, MapKey(5, d))

====
